---- MODULE Spec2Model ----
(***************************************************************************)
(* Page-structure and cross-reference engine of doctor4mystmd:             *)
(* TOCParser (toc-parser.ts), PageStructureManager                         *)
(* (page-structure-manager.ts), and the publishing runs that drive them:   *)
(* Doctor4MySTMD.processAndPublishWithTOC (index.ts) and the publish-toc   *)
(* command (cli.ts).                                                       *)
(*                                                                         *)
(* Strings are tuples of one-character strings, so that slug derivation,   *)
(* basename and prefix tests are computed character by character.          *)
(* An optional value (string | undefined) is <<>> when undefined and <<v>> *)
(* when it holds v.  A JavaScript Map is a tuple of [key, val] records in  *)
(* insertion order.                                                        *)
(***************************************************************************)
EXTENDS Integers, Sequences, FiniteSets, TLC

VARIABLES
  config,          \* TOCParser.config: <<>> (null) or <<[toc |-> optional entry list]>>
  pages,           \* TOCParser.pages: Map slug -> PageInfo (aliased by pageStructure.pages)
  pageOrder,       \* TOCParser.pageOrder: slugs in registration order
  pageStructure,   \* PageStructureManager.pageStructure: <<>> (null) or <<[hierarchy, navigation]>>
  crossReferences, \* PageStructureManager.crossReferences: Map slug -> CrossReference list
  lastCall,        \* the operation that ran last, its arguments and its outcome
  run,             \* the publishing run: which entry point, its options and its position
  results,         \* processAndPublishWithTOC's results: Map file path -> boolean
  log,             \* the calls the run has made on parser, transformer and DoctorIntegration
  transformer,     \* MySTASTTransformer: [currentPageSlug |-> <<>> (undefined) or <<slug>>]
  tasks            \* the page tasks of a run that handles its pages concurrently

vars == <<config, pages, pageOrder, pageStructure, crossReferences, lastCall,
          run, results, log, transformer, tasks>>

----------------------------------------------------------------------------
(* Bounds of the model *)

\* largest number of entries (at any depth) of an enumerated TOC description
MaxEntries == 3
\* largest length of an enumerated slug input
MaxLen == 4

----------------------------------------------------------------------------
(* Strings *)

UpperChars == <<"A","B","C","D","E","F","G","H","I","J","K","L","M",
                "N","O","P","Q","R","S","T","U","V","W","X","Y","Z">>
LowerChars == <<"a","b","c","d","e","f","g","h","i","j","k","l","m",
                "n","o","p","q","r","s","t","u","v","w","x","y","z">>
DigitChars == {"0","1","2","3","4","5","6","7","8","9"}

Range(s) == { s[i] : i \in DOMAIN s }

SlugChars == Range(LowerChars) \cup DigitChars

\* the character class [a-z0-9]
IsSlugChar(c) == c \in SlugChars

\* the character class \s as far as the model's alphabet has it
IsSpace(c) == c = " "

\* String.prototype.toLowerCase on one character
LowerChar(c) ==
  IF \E i \in DOMAIN UpperChars : UpperChars[i] = c
    THEN LowerChars[CHOOSE i \in DOMAIN UpperChars : UpperChars[i] = c]
    ELSE c

ToLowerCase(s) == [i \in DOMAIN s |-> LowerChar(s[i])]

StartsWith(s, p) == Len(p) <= Len(s) /\ SubSeq(s, 1, Len(p)) = p

EndsWith(s, p) == Len(p) <= Len(s) /\ SubSeq(s, Len(s) - Len(p) + 1, Len(s)) = p

\* String.prototype.substring(n): the string without its first n characters
Substring(s, n) == SubSeq(s, n + 1, Len(s))

Includes(s, c) == c \in Range(s)

RECURSIVE DropWhileNot(_)
\* s without its longest prefix of characters outside [a-z0-9]
DropWhileNot(s) ==
  IF s = <<>> \/ IsSlugChar(Head(s)) THEN s ELSE DropWhileNot(Tail(s))

RECURSIVE ReplaceNonSlugRuns(_)
\* .replace(/[^a-z0-9]+/g, '-')
ReplaceNonSlugRuns(s) ==
  IF s = <<>> THEN <<>>
  ELSE IF IsSlugChar(Head(s)) THEN <<Head(s)>> \o ReplaceNonSlugRuns(Tail(s))
  ELSE <<"-">> \o ReplaceNonSlugRuns(DropWhileNot(s))

RECURSIVE StripLeadingHyphens(_)
StripLeadingHyphens(s) ==
  IF s # <<>> /\ Head(s) = "-" THEN StripLeadingHyphens(Tail(s)) ELSE s

RECURSIVE StripTrailingHyphens(_)
StripTrailingHyphens(s) ==
  IF s # <<>> /\ s[Len(s)] = "-"
    THEN StripTrailingHyphens(SubSeq(s, 1, Len(s) - 1)) ELSE s

\* .replace(/^-+|-+$/g, '')
StripHyphens(s) == StripTrailingHyphens(StripLeadingHyphens(s))

RECURSIVE TrimLeft(_)
TrimLeft(s) == IF s # <<>> /\ IsSpace(Head(s)) THEN TrimLeft(Tail(s)) ELSE s

RECURSIVE TrimRight(_)
TrimRight(s) ==
  IF s # <<>> /\ IsSpace(s[Len(s)]) THEN TrimRight(SubSeq(s, 1, Len(s) - 1)) ELSE s

\* String.prototype.trim
Trim(s) == TrimRight(TrimLeft(s))

----------------------------------------------------------------------------
(* Paths (node:path, POSIX flavour) *)

RECURSIVE StripTrailingSlashes(_)
StripTrailingSlashes(s) ==
  IF s # <<>> /\ s[Len(s)] = "/"
    THEN StripTrailingSlashes(SubSeq(s, 1, Len(s) - 1)) ELSE s

RECURSIVE AfterLastSlash(_)
AfterLastSlash(s) ==
  IF Includes(s, "/") THEN AfterLastSlash(Tail(s)) ELSE s

\* the last portion of a path, trailing separators ignored
LastComponent(p) == AfterLastSlash(StripTrailingSlashes(p))

\* path.basename(p, suffix): the suffix is removed from the last component
\* unless it is the whole component; a path equal to the suffix gives ''
Basename(p, suffix) ==
  LET comp == LastComponent(p) IN
  IF suffix # <<>> /\ p = suffix THEN <<>>
  ELSE IF suffix # <<>> /\ EndsWith(comp, suffix) /\ Len(comp) > Len(suffix)
    THEN SubSeq(comp, 1, Len(comp) - Len(suffix))
  ELSE comp

DotMd == <<".", "m", "d">>


Slash == <<"/">>

RECURSIVE SplitSlash(_, _)
\* the segments of a path between its separators; cur is the segment being read
SplitSlash(s, cur) ==
  IF s = <<>> THEN <<cur>>
  ELSE IF Head(s) = "/" THEN <<cur>> \o SplitSlash(Tail(s), <<>>)
  ELSE SplitSlash(Tail(s), Append(cur, Head(s)))

RECURSIVE NormalizeSegments(_, _)
\* normalisation of an absolute path: '', '.' dropped, '..' removes a segment
NormalizeSegments(segs, acc) ==
  IF segs = <<>> THEN acc
  ELSE LET g == Head(segs) IN
    IF g = <<>> \/ g = <<".">> THEN NormalizeSegments(Tail(segs), acc)
    ELSE IF g = <<".", ".">>
      THEN NormalizeSegments(Tail(segs),
             IF acc = <<>> THEN acc ELSE SubSeq(acc, 1, Len(acc) - 1))
    ELSE NormalizeSegments(Tail(segs), Append(acc, g))

RECURSIVE JoinAbsolute(_)
JoinAbsolute(segs) ==
  IF segs = <<>> THEN <<>> ELSE Slash \o Head(segs) \o JoinAbsolute(Tail(segs))

NormalizeAbsolute(p) ==
  LET segs == NormalizeSegments(SplitSlash(p, <<>>), <<>>) IN
  IF segs = <<>> THEN Slash ELSE JoinAbsolute(segs)

IsAbsolute(p) == p # <<>> /\ Head(p) = "/"

\* process.cwd() of the run
Cwd == <<"/", "w">>

\* path.resolve(a, b): arguments are taken right to left until one is absolute,
\* the working directory is used when none is, and the result is normalised
PathResolve(a, b) ==
  NormalizeAbsolute(
    IF IsAbsolute(b) THEN b
    ELSE IF IsAbsolute(a) THEN a \o Slash \o b
    ELSE Cwd \o Slash \o a \o Slash \o b)

----------------------------------------------------------------------------
(* Optional values and Maps *)

None == <<>>
Some(v) == <<v>>

\* JavaScript truthiness of string | undefined: undefined and '' are falsy
Truthy(o) == o # <<>> /\ o[1] # <<>>

\* a || b on optional strings
OrElse(a, b) == IF Truthy(a) THEN a ELSE b

MapHas(m, k) == \E i \in DOMAIN m : m[i].key = k

MapIndex(m, k) == CHOOSE i \in DOMAIN m : m[i].key = k

\* Map.prototype.get for a key the map has
MapGet(m, k) == m[MapIndex(m, k)].val

\* Map.prototype.set: a new key is appended, an existing key keeps its position
MapSet(m, k, v) ==
  IF MapHas(m, k) THEN [m EXCEPT ![MapIndex(m, k)].val = v]
  ELSE Append(m, [key |-> k, val |-> v])

MapKeys(m) == [i \in DOMAIN m |-> m[i].key]

----------------------------------------------------------------------------
(* TOCParser: slugs and titles *)

\* generateSlug replacing every character outside [a-z0-9] by its own hyphen
GenerateSlug_NoCollapse(filePath, customSlug) ==
  IF Truthy(customSlug) THEN customSlug[1]
  ELSE LET lower == ToLowerCase(Basename(filePath, DotMd)) IN
       StripHyphens([i \in DOMAIN lower |->
                       IF IsSlugChar(lower[i]) THEN lower[i] ELSE "-"])

\* TOCParser.generateSlug(filePath, customSlug)
GenerateSlug(filePath, customSlug) ==
  IF Truthy(customSlug) THEN customSlug[1]
  ELSE LET baseName == Basename(filePath, DotMd) IN
       StripHyphens(ReplaceNonSlugRuns(ToLowerCase(baseName)))

\* generateSlugFromPath normalising the whole path, directories included
GenerateSlugFromPath_WholePath(filePath) ==
  StripHyphens(ReplaceNonSlugRuns(ToLowerCase(
    IF EndsWith(filePath, DotMd)
      THEN SubSeq(filePath, 1, Len(filePath) - Len(DotMd)) ELSE filePath)))

\* PageStructureManager.generateSlugFromPath(filePath)
GenerateSlugFromPath(filePath) ==
  LET baseName == Basename(filePath, DotMd) IN
  StripHyphens(ReplaceNonSlugRuns(ToLowerCase(baseName)))

\* The content files on disk: absolute path and lines of text.
Disk ==
  << [path  |-> <<"/","w","/","a",".","m","d">>,
      lines |-> << <<"#","#"," ","S">>, <<" ","#"," "," ","A","l"," ">> >>],
     [path  |-> <<"/","w","/","b",".","m","d">>,
      lines |-> << <<"t","e","x","t">> >>],
     [path  |-> <<"/","w","/","d","/","a",".","m","d">>,
      lines |-> << <<"#"," ","D">> >>],
     [path  |-> <<"/","X","/","a",".","m","d">>,
      lines |-> << <<"#","x">>, <<>> >>] >>

\* fs.existsSync
ExistsSync(path) == \E i \in DOMAIN Disk : Disk[i].path = path

\* fs.readFileSync(path, 'utf8').split('\n')
ReadLines(path) == Disk[CHOOSE i \in DOMAIN Disk : Disk[i].path = path].lines

RECURSIVE FirstH1(_)
\* the loop of extractTitleFromFile over the lines of the file
FirstH1(lines) ==
  IF lines = <<>> THEN None
  ELSE LET trimmed == Trim(Head(lines)) IN
       IF StartsWith(trimmed, <<"#", " ">>)
         THEN Some(Trim(Substring(trimmed, 2)))
         ELSE FirstH1(Tail(lines))

\* TOCParser.extractTitleFromFile(filePath): the title or null
ExtractTitleFromFile(filePath) ==
  IF ~ExistsSync(filePath) THEN None ELSE FirstH1(ReadLines(filePath))

RECURSIVE GlobMatch(_, _)
\* a glob pattern against a relative name: '*' matches within one segment
GlobMatch(pat, name) ==
  IF pat = <<>> THEN name = <<>>
  ELSE IF Head(pat) = "*"
    THEN \/ GlobMatch(Tail(pat), name)
         \/ name # <<>> /\ Head(name) # "/" /\ GlobMatch(pat, Tail(name))
  ELSE name # <<>> /\ Head(name) = Head(pat) /\ GlobMatch(Tail(pat), Tail(name))

\* the name of an absolute path relative to a directory, None when outside it
RelativeTo(dir, path) ==
  LET prefix == IF dir = Slash THEN dir ELSE dir \o Slash IN
  IF StartsWith(path, prefix) /\ Len(path) > Len(prefix)
    THEN Some(Substring(path, Len(prefix))) ELSE None

RECURSIVE GlobFrom(_, _, _)
\* the matches among the disk entries listed by enum, in that order
GlobFrom(pattern, dir, enum) ==
  IF enum = <<>> THEN <<>>
  ELSE LET rel == RelativeTo(dir, Disk[Head(enum)].path) IN
       (IF rel # None /\ GlobMatch(pattern, rel[1]) THEN <<rel[1]>> ELSE <<>>)
         \o GlobFrom(pattern, dir, Tail(enum))

\* glob(pattern, {cwd: baseDir}); enum is the order in which the directory
\* walk of this run enumerates the files
Glob(pattern, baseDir, enum) ==
  GlobFrom(pattern, PathResolve(baseDir, <<>>), enum)

----------------------------------------------------------------------------
(* TOCParser: building the page map *)

\* A TOCEntry: every field optional; children holds the list of child entries.
Entry(file, title, slug, pattern, children) ==
  [file |-> file, title |-> title, slug |-> slug, pattern |-> pattern,
   children |-> children]

\* A PageInfo object.
PageInfo(filePath, title, slug, level, parent, order) ==
  [filePath |-> filePath, title |-> title, slug |-> slug, level |-> level,
   parent |-> parent, children |-> <<>>, order |-> order]

\* this.pages.get(parentSlug)!.children.push(slug)
PushChild(pg, parentSlug, slug) ==
  LET i == MapIndex(pg, parentSlug) IN
  [pg EXCEPT ![i].val.children = Append(@, slug)]

\* The registration every branch of processTOCEntries performs: the page is
\* numbered with order++, stored under its slug, appended to pageOrder and
\* pushed to the children of the page stored under a truthy parentSlug.
\* st is [pages, pageOrder, order].
RegisterPage(st, filePath, title, slug, level, parentSlug) ==
  LET info   == PageInfo(filePath, title, slug, level, parentSlug, st.order)
      stored == MapSet(st.pages, slug, info)
  IN [pages     |-> IF Truthy(parentSlug) /\ MapHas(stored, parentSlug[1])
                      THEN PushChild(stored, parentSlug[1], slug)
                      ELSE stored,
      pageOrder |-> Append(st.pageOrder, slug),
      order     |-> st.order + 1]

\* title resolution taking the heading of the file before the explicit title
ResolveTitle_HeadingFirst(entry, filePath, file) ==
  LET extracted == ExtractTitleFromFile(filePath) IN
  IF Truthy(extracted) THEN extracted[1]
  ELSE IF Truthy(entry.title) THEN entry.title[1]
  ELSE Basename(file, DotMd)

\* entry.title || this.extractTitleFromFile(filePath) || path.basename(file, '.md')
ResolveTitle(entry, filePath, file) ==
  IF Truthy(entry.title) THEN entry.title[1]
  ELSE LET extracted == ExtractTitleFromFile(filePath) IN
       IF Truthy(extracted) THEN extracted[1] ELSE Basename(file, DotMd)

\* The body of the file branch, also run for every match of a pattern entry.
ProcessFile(st, file, entry, baseDir, level, parentSlug) ==
  LET filePath == PathResolve(baseDir, file)
      slug     == GenerateSlug(file, entry.slug)
      title    == ResolveTitle(entry, filePath, file)
  IN RegisterPage(st, filePath, title, slug, level, parentSlug)

RECURSIVE ProcessFiles(_, _, _, _, _, _)
\* for (const file of files) of the pattern branch
ProcessFiles(st, files, entry, baseDir, level, parentSlug) ==
  IF files = <<>> THEN st
  ELSE ProcessFiles(ProcessFile(st, Head(files), entry, baseDir, level, parentSlug),
                    Tail(files), entry, baseDir, level, parentSlug)

SectionWord == <<"s","e","c","t","i","o","n">>
SectionTitle == <<"S","e","c","t","i","o","n">>

RECURSIVE ProcessTOCEntries(_, _, _, _, _, _)
\* TOCParser.processTOCEntries(entries, baseDir, level, parentSlug, order);
\* st carries the page map, pageOrder and the order counter
ProcessTOCEntries(entries, baseDir, level, parentSlug, st, enum) ==
  IF entries = <<>> THEN st
  ELSE
    LET entry == Head(entries)
        after ==
          IF Truthy(entry.file)
            THEN ProcessFile(st, entry.file[1], entry, baseDir, level, parentSlug)
          ELSE IF Truthy(entry.pattern)
            THEN ProcessFiles(st, Glob(entry.pattern[1], baseDir, enum), entry,
                              baseDir, level, parentSlug)
          ELSE IF entry.children # None
            THEN LET sectionSlug ==
                       GenerateSlug(IF Truthy(entry.title) THEN entry.title[1]
                                    ELSE SectionWord, entry.slug)
                     sectionTitle ==
                       IF Truthy(entry.title) THEN entry.title[1] ELSE SectionTitle
                     section == RegisterPage(st, <<>>, sectionTitle, sectionSlug,
                                             level, parentSlug)
                 IN ProcessTOCEntries(entry.children[1], baseDir, level + 1,
                                      Some(sectionSlug), section, enum)
          ELSE st
    IN ProcessTOCEntries(Tail(entries), baseDir, level, parentSlug, after, enum)

\* the page map, pageOrder and counter after this.pages.clear(), pageOrder = []
EmptyBuild == [pages |-> <<>>, pageOrder |-> <<>>, order |-> 0]

----------------------------------------------------------------------------
(* TOCParser: accessors, over a page map pg and an order list po *)

\* TOCParser.getPagesInOrder
GetPagesInOrder(pg, po) ==
  LET present == SelectSeq(po, LAMBDA s : MapHas(pg, s)) IN
  [i \in DOMAIN present |-> MapGet(pg, present[i])]

\* TOCParser.getRootPages
GetRootPages(pg, po) == SelectSeq(GetPagesInOrder(pg, po), LAMBDA p : p.level = 0)

\* TOCParser.getChildren
GetChildren(pg, slug) ==
  IF ~MapHas(pg, slug) THEN <<>>
  ELSE LET kids == SelectSeq(MapGet(pg, slug).children, LAMBDA c : MapHas(pg, c)) IN
       [i \in DOMAIN kids |-> MapGet(pg, kids[i])]

\* TOCParser.getParent: the parent page or undefined
GetParent(pg, slug) ==
  IF ~MapHas(pg, slug) THEN None
  ELSE LET page == MapGet(pg, slug) IN
       IF ~Truthy(page.parent) THEN None
       ELSE IF MapHas(pg, page.parent[1]) THEN Some(MapGet(pg, page.parent[1]))
       ELSE None

RECURSIVE BreadcrumbWalk(_, _, _, _)
\* the while loop of getBreadcrumb; current is the page or undefined.  A walk
\* longer than the number of pages is on a parent cycle and never ends.
BreadcrumbWalk(pg, current, breadcrumb, steps) ==
  IF current = None THEN [ends |-> TRUE, trail |-> breadcrumb]
  ELSE IF steps > Len(pg) THEN [ends |-> FALSE, trail |-> <<>>]
  ELSE BreadcrumbWalk(pg,
         IF Truthy(current[1].parent) /\ MapHas(pg, current[1].parent[1])
           THEN Some(MapGet(pg, current[1].parent[1])) ELSE None,
         <<current[1]>> \o breadcrumb, steps + 1)

\* TOCParser.getBreadcrumb: [ends, trail]; ends is FALSE when the loop never
\* terminates
GetBreadcrumb(pg, slug) ==
  BreadcrumbWalk(pg, IF MapHas(pg, slug) THEN Some(MapGet(pg, slug)) ELSE None,
                 <<>>, 1)

\* TOCParser.generatePageHierarchy
GeneratePageHierarchy(pg, po) ==
  LET inOrder == GetPagesInOrder(pg, po) IN
  [i \in DOMAIN inOrder |->
     [page     |-> inOrder[i],
      level    |-> inOrder[i].level,
      parent   |-> IF Truthy(inOrder[i].parent) /\ MapHas(pg, inOrder[i].parent[1])
                     THEN Some(MapGet(pg, inOrder[i].parent[1])) ELSE None,
      children |-> GetChildren(pg, inOrder[i].slug)]]

----------------------------------------------------------------------------
(* PageStructureManager: buildStructure *)

\* the siblings entry without the filter that removes the page itself
SiblingsOf_WithSelf(pg, slug) ==
  LET parent == GetParent(pg, slug) IN
  IF parent # None THEN GetChildren(pg, parent[1].slug) ELSE <<>>

\* siblings.set(slug, ...) of buildNavigation for one slug
SiblingsOf(pg, slug) ==
  LET parent == GetParent(pg, slug) IN
  IF parent # None
    THEN SelectSeq(GetChildren(pg, parent[1].slug), LAMBDA p : p.slug # slug)
    ELSE <<>>

\* PageStructureManager.buildNavigation(pages): the loop visits the keys of
\* the page map in insertion order and sets one entry per key in each of the
\* three Maps; it does not end when a getBreadcrumb call does not end
BuildNavigation(pg) ==
  [ends |-> \A i \in DOMAIN pg : GetBreadcrumb(pg, pg[i].key).ends,
   navigation |->
     [breadcrumbs |-> [i \in DOMAIN pg |->
                         [key |-> pg[i].key, val |-> GetBreadcrumb(pg, pg[i].key).trail]],
      siblings    |-> [i \in DOMAIN pg |->
                         [key |-> pg[i].key, val |-> SiblingsOf(pg, pg[i].key)]],
      children    |-> [i \in DOMAIN pg |->
                         [key |-> pg[i].key, val |-> GetChildren(pg, pg[i].key)]]]]

\* A configuration file as buildStructure finds it: absent, or present with
\* the value yaml.parse gives: null (None), a config without project.toc
\* (toc = None) or a config with the entry list.
ConfigFile(exists, parsed) == [exists |-> exists, parsed |-> parsed]

BuildCall(baseDir, enum, outcome) ==
  [op |-> "buildStructure", baseDir |-> baseDir, enum |-> enum, outcome |-> outcome]

\* buildStructure taking a missing configuration or a missing project.toc
\* for an empty table of contents
BuildStructure_EmptyOnMissing(cfg, baseDir, enum) ==
  LET toc   == IF cfg.exists /\ cfg.parsed # None /\ cfg.parsed[1].toc # None
                 THEN cfg.parsed[1].toc[1] ELSE <<>>
      built == ProcessTOCEntries(toc, baseDir, 0, None, EmptyBuild, enum)
  IN /\ config' = cfg.parsed
     /\ pages' = built.pages
     /\ pageOrder' = built.pageOrder
     /\ LET nav == BuildNavigation(pages') IN
        IF nav.ends
          THEN /\ pageStructure' =
                    Some([hierarchy  |-> GeneratePageHierarchy(pages', pageOrder'),
                          navigation |-> nav.navigation])
               /\ lastCall' = BuildCall(baseDir, enum, "returned")
          ELSE /\ pageStructure' = pageStructure
               /\ lastCall' = BuildCall(baseDir, enum, "diverged")
     /\ UNCHANGED crossReferences

\* PageStructureManager.buildStructure(configPath, baseDir), with
\* TOCParser.parseConfig and TOCParser.buildPageStructure inside it.
\* cfg is the file at configPath, enum the enumeration order of this run's glob.
BuildStructure(cfg, baseDir, enum) ==
  IF ~cfg.exists
    THEN \* parseConfig throws before this.config is assigned
         /\ lastCall' = BuildCall(baseDir, enum, "threw")
         /\ UNCHANGED <<config, pages, pageOrder, pageStructure, crossReferences>>
  ELSE IF cfg.parsed = None \/ cfg.parsed[1].toc = None
    THEN \* this.config is assigned, then parseConfig throws
         /\ config' = cfg.parsed
         /\ lastCall' = BuildCall(baseDir, enum, "threw")
         /\ UNCHANGED <<pages, pageOrder, pageStructure, crossReferences>>
  ELSE
    LET built == ProcessTOCEntries(cfg.parsed[1].toc[1], baseDir, 0, None,
                                   EmptyBuild, enum)
    IN /\ config' = cfg.parsed
       /\ pages' = built.pages
       /\ pageOrder' = built.pageOrder
       /\ LET nav == BuildNavigation(pages') IN
          IF nav.ends
            THEN /\ pageStructure' =
                      Some([hierarchy  |-> GeneratePageHierarchy(pages', pageOrder'),
                            navigation |-> nav.navigation])
                 /\ lastCall' = BuildCall(baseDir, enum, "returned")
            ELSE \* getBreadcrumb never returns: buildStructure does not either
                 /\ pageStructure' = pageStructure
                 /\ lastCall' = BuildCall(baseDir, enum, "diverged")
       /\ UNCHANGED crossReferences

\* Whether the running call has hung: nothing runs after it.
Hung == lastCall.op = "buildStructure" /\ lastCall.outcome = "diverged"

Init ==
  /\ config = None
  /\ pages = <<>>
  /\ pageOrder = <<>>
  /\ pageStructure = None
  /\ crossReferences = <<>>
  /\ lastCall = [op |-> "new"]
  /\ run = [op |-> "none"]
  /\ results = <<>>
  /\ log = <<>>
  /\ transformer = [currentPageSlug |-> None]
  /\ tasks = <<>>

----------------------------------------------------------------------------
(* PageStructureManager: cross-references *)

\* A MySTNode: type tag, role name, optional literal value, child nodes.
Node(type, name, value, children) ==
  [type |-> type, name |-> name, value |-> value, children |-> children]

RefRoleNames == { "ref", "cite", "doc" }

RECURSIVE Traverse(_)
\* traverse(node) of findReferenceNodes: the node itself when it is a
\* reference role, then its children, depth first
Traverse(node) ==
  LET RECURSIVE Each(_)
      Each(nodes) ==
        IF nodes = <<>> THEN <<>> ELSE Traverse(Head(nodes)) \o Each(Tail(nodes))
  IN (IF node.type = "myst_role" /\ node.name \in RefRoleNames
        THEN <<node>> ELSE <<>>)
     \o Each(node.children)

RECURSIVE FindReferenceNodes(_)
\* PageStructureManager.findReferenceNodes(document), over document.children
FindReferenceNodes(nodes) ==
  IF nodes = <<>> THEN <<>>
  ELSE Traverse(Head(nodes)) \o FindReferenceNodes(Tail(nodes))

\* PageStructureManager.extractReference(node):
\* node.value || node.children?.[0]?.value, or null
ExtractReference(node) ==
  IF node.type = "myst_role"
    THEN IF Truthy(node.value) THEN node.value
         ELSE IF node.children # <<>> THEN node.children[1].value
         ELSE None
    ELSE None

\* this.pageStructure?.pages.has(slug) || false; pageStructure.pages is the
\* Map object of the TOC parser
StructureHas(slug) == pageStructure # None /\ MapHas(pages, slug)

RECURSIVE FirstMatch(_, _)
\* the loop of resolveByTitleOrSlug over the entries of the page map
FirstMatch(pg, ref) ==
  IF pg = <<>> THEN None
  ELSE IF Head(pg).val.title = ref \/ Head(pg).key = ref THEN Some(Head(pg).key)
  ELSE FirstMatch(Tail(pg), ref)

\* PageStructureManager.resolveByTitleOrSlug(ref): the slug or null
ResolveByTitleOrSlug(ref) ==
  IF pageStructure = None THEN None ELSE FirstMatch(pages, ref)

CrossReference(from, to, type, resolved, url) ==
  [from |-> from, to |-> to, type |-> type, resolved |-> resolved, url |-> url]

Str_http == <<"h","t","t","p">>
Str_hash == <<"#">>

\* the record of the '#' rule
AnchorReference(ref, currentPageSlug) ==
  CrossReference(currentPageSlug, Substring(ref, 1), "internal",
                 StructureHas(Substring(ref, 1)), Some(ref))

\* the record of the 'http' rule
ExternalReference(ref, currentPageSlug) ==
  CrossReference(currentPageSlug, ref, "external", TRUE, Some(ref))

\* the record of the file rule
FileReference(ref, currentPageSlug) ==
  LET slug == GenerateSlugFromPath(ref) IN
  CrossReference(currentPageSlug, slug, "file", StructureHas(slug),
                 Some(Str_hash \o slug))

\* the record of the title-or-slug lookup
LookupReference(ref, currentPageSlug) ==
  LET resolvedSlug == ResolveByTitleOrSlug(ref) IN
  CrossReference(currentPageSlug,
                 IF Truthy(resolvedSlug) THEN resolvedSlug[1] ELSE ref,
                 "internal", Truthy(resolvedSlug),
                 IF Truthy(resolvedSlug) THEN Some(Str_hash \o resolvedSlug[1])
                 ELSE None)

\* resolveCrossReference testing the whole token, '#' included, against the slugs
ResolveCrossReference_WholeToken(ref, currentPageSlug) ==
  IF StartsWith(ref, Str_hash)
    THEN CrossReference(currentPageSlug, Substring(ref, 1), "internal",
                        StructureHas(ref), Some(ref))
  ELSE IF StartsWith(ref, Str_http) THEN ExternalReference(ref, currentPageSlug)
  ELSE IF Includes(ref, "/") \/ EndsWith(ref, DotMd)
    THEN FileReference(ref, currentPageSlug)
  ELSE LookupReference(ref, currentPageSlug)

\* resolveCrossReference testing the file rule before the 'http' rule
ResolveCrossReference_FileFirst(ref, currentPageSlug) ==
  IF StartsWith(ref, Str_hash) THEN AnchorReference(ref, currentPageSlug)
  ELSE IF Includes(ref, "/") \/ EndsWith(ref, DotMd)
    THEN FileReference(ref, currentPageSlug)
  ELSE IF StartsWith(ref, Str_http) THEN ExternalReference(ref, currentPageSlug)
  ELSE LookupReference(ref, currentPageSlug)

\* resolveCrossReference trying the title-or-slug lookup before the prefix rules
ResolveCrossReference_LookupFirst(ref, currentPageSlug) ==
  IF Truthy(ResolveByTitleOrSlug(ref)) THEN LookupReference(ref, currentPageSlug)
  ELSE IF StartsWith(ref, Str_hash) THEN AnchorReference(ref, currentPageSlug)
  ELSE IF StartsWith(ref, Str_http) THEN ExternalReference(ref, currentPageSlug)
  ELSE IF Includes(ref, "/") \/ EndsWith(ref, DotMd)
    THEN FileReference(ref, currentPageSlug)
  ELSE LookupReference(ref, currentPageSlug)

\* PageStructureManager.resolveCrossReference(ref, currentPageSlug, baseDir):
\* the first rule that matches decides
ResolveCrossReference(ref, currentPageSlug) ==
  IF StartsWith(ref, Str_hash) THEN AnchorReference(ref, currentPageSlug)
  ELSE IF StartsWith(ref, Str_http) THEN ExternalReference(ref, currentPageSlug)
  ELSE IF Includes(ref, "/") \/ EndsWith(ref, DotMd)
    THEN FileReference(ref, currentPageSlug)
  ELSE LookupReference(ref, currentPageSlug)

RECURSIVE ResolveAll_DropUnresolved(_, _)
\* the loop of processCrossReferences leaving out the references it cannot resolve
ResolveAll_DropUnresolved(refNodes, currentPageSlug) ==
  IF refNodes = <<>> THEN <<>>
  ELSE LET ref == ExtractReference(Head(refNodes)) IN
       (IF Truthy(ref) /\ ResolveCrossReference(ref[1], currentPageSlug).resolved
          THEN <<ResolveCrossReference(ref[1], currentPageSlug)>>
          ELSE <<>>)
       \o ResolveAll_DropUnresolved(Tail(refNodes), currentPageSlug)

RECURSIVE ResolveAll(_, _)
\* the loop of processCrossReferences over the reference nodes
ResolveAll(refNodes, currentPageSlug) ==
  IF refNodes = <<>> THEN <<>>
  ELSE LET ref == ExtractReference(Head(refNodes)) IN
       (IF Truthy(ref) THEN <<ResolveCrossReference(ref[1], currentPageSlug)>>
        ELSE <<>>)
       \o ResolveAll(Tail(refNodes), currentPageSlug)

\* processCrossReferences keeping only the list of the slug processed last
ProcessCrossReferences_SingleSlot(document, currentPageSlug) ==
  LET references == ResolveAll(FindReferenceNodes(document.children), currentPageSlug) IN
  /\ crossReferences' = << [key |-> currentPageSlug, val |-> references] >>
  /\ lastCall' = [op |-> "processCrossReferences", document |-> document,
                  slug |-> currentPageSlug, result |-> references]
  /\ UNCHANGED <<config, pages, pageOrder, pageStructure>>

\* PageStructureManager.processCrossReferences(document, currentPageSlug, baseDir):
\* the list is stored under the source slug and returned
ProcessCrossReferences(document, currentPageSlug) ==
  LET references == ResolveAll(FindReferenceNodes(document.children), currentPageSlug) IN
  /\ crossReferences' = MapSet(crossReferences, currentPageSlug, references)
  /\ lastCall' = [op |-> "processCrossReferences", document |-> document,
                  slug |-> currentPageSlug, result |-> references]
  /\ UNCHANGED <<config, pages, pageOrder, pageStructure>>

\* TOCParser.getNavigation(): the entries of project.toc, none without it
GetNavigation ==
  IF config = None \/ config[1].toc = None THEN <<>> ELSE config[1].toc[1]

\* PageStructureManager.getCrossReferences(pageSlug)
GetCrossReferences(pageSlug) ==
  IF MapHas(crossReferences, pageSlug) THEN MapGet(crossReferences, pageSlug) ELSE <<>>

----------------------------------------------------------------------------
(* PageStructureManager: navigation HTML *)

\* One element of the generated markup: tag, class attribute, href
\* attribute and text, None where the element has none. A closing tag is
\* an element whose tag begins with '/'.
El(tag, class, href, text) ==
  [tag |-> tag, class |-> class, href |-> href, text |-> text]

Open(tag, class) == El(tag, Some(class), None, None)

Close(tag) == El("/" \o tag, None, None, None)

\* navigation.<map>.get(slug) || []
NavigationGet(m, slug) == IF MapHas(m, slug) THEN MapGet(m, slug) ELSE <<>>

\* siblings.findIndex(s => s.slug === currentPageSlug): 0-based, -1 when absent
FindIndex(list, slug) ==
  IF \E k \in DOMAIN list : list[k].slug = slug
    THEN (CHOOSE k \in DOMAIN list :
            /\ list[k].slug = slug
            /\ \A m \in 1..(k - 1) : list[m].slug # slug) - 1
    ELSE -1

\* the breadcrumbs block of generateNavigationHTML
BreadcrumbsHTML(breadcrumbs, currentPageSlug) ==
  IF Len(breadcrumbs) > 1
    THEN << Open("div", "breadcrumbs"), El("ol", None, None, None) >>
         \o [i \in DOMAIN breadcrumbs |->
               LET crumb     == breadcrumbs[i]
                   isLast    == i = Len(breadcrumbs)
                   isCurrent == crumb.slug = currentPageSlug
               IN IF isLast \/ isCurrent
                    THEN El("span", Some(IF isCurrent THEN "current" ELSE "last"),
                            None, Some(crumb.title))
                    ELSE El("a", None, Some(Str_hash \o crumb.slug), Some(crumb.title))]
         \o << Close("ol"), Close("div") >>
    ELSE <<>>

\* the previous/next block of generateNavigationHTML
PageNavigationHTML(siblings, currentPageSlug) ==
  IF Len(siblings) > 0
    THEN LET currentIndex == FindIndex(siblings, currentPageSlug)
             prev == IF currentIndex > 0 THEN Some(siblings[currentIndex]) ELSE None
             next == IF currentIndex < Len(siblings) - 1
                       THEN Some(siblings[currentIndex + 2]) ELSE None
         IN << Open("div", "page-navigation") >>
            \o (IF prev # None
                  THEN << El("a", Some("prev-page"), Some(Str_hash \o prev[1].slug),
                             Some(prev[1].title)) >>
                  ELSE <<>>)
            \o (IF next # None
                  THEN << El("a", Some("next-page"), Some(Str_hash \o next[1].slug),
                             Some(next[1].title)) >>
                  ELSE <<>>)
            \o << Close("div") >>
    ELSE <<>>

\* the children block of generateNavigationHTML
PageTocHTML(children, currentPageSlug) ==
  IF Len(children) > 0
    THEN << Open("div", "page-toc"), El("h3", None, None, None),
            El("ul", None, None, None) >>
         \o [i \in DOMAIN children |->
               El("a", Some(IF children[i].slug = currentPageSlug THEN "current" ELSE ""),
                  Some(Str_hash \o children[i].slug), Some(children[i].title))]
         \o << Close("ul"), Close("div") >>
    ELSE <<>>

\* PageStructureManager.generateNavigationHTML(pageSlug, currentPageSlug):
\* the elements of the returned markup in order, none for ''
GenerateNavigationHTML(pageSlug, currentPageSlug) ==
  IF pageStructure = None THEN <<>>
  ELSE IF ~MapHas(pages, pageSlug) THEN <<>>
  ELSE LET navigation == pageStructure[1].navigation IN
       << Open("nav", "myst-navigation") >>
       \o BreadcrumbsHTML(NavigationGet(navigation.breadcrumbs, pageSlug), currentPageSlug)
       \o PageNavigationHTML(NavigationGet(navigation.siblings, pageSlug), currentPageSlug)
       \o PageTocHTML(NavigationGet(navigation.children, pageSlug), currentPageSlug)
       \o << Close("nav") >>

RECURSIVE Flatten(_)
\* the concatenation of a list of lists
Flatten(lists) == IF lists = <<>> THEN <<>> ELSE Head(lists) \o Flatten(Tail(lists))

RECURSIVE GenerateNavigationItemHTML(_, _, _)
\* PageStructureManager.generateNavigationItemHTML(page, level): the item of
\* the page, then the items of its children entry inside a list.  The
\* recursion has no guard of its own: depth counts the calls still allowed
\* before a slug must have repeated on the path, after which it never ends.
GenerateNavigationItemHTML(page, level, depth) ==
  IF depth = 0 THEN [ends |-> FALSE, html |-> <<>>]
  ELSE LET children == IF pageStructure = None THEN <<>>
                       ELSE NavigationGet(pageStructure[1].navigation.children, page.slug)
           items    == [i \in DOMAIN children |->
                          GenerateNavigationItemHTML(children[i], level + 1, depth - 1)]
       IN [ends |-> \A i \in DOMAIN items : items[i].ends,
           html |-> << El("li", None, None, None),
                       El("a", None, Some(Str_hash \o page.slug), Some(page.title)) >>
                    \o (IF Len(children) > 0
                          THEN << El("ul", None, None, None) >>
                               \o Flatten([i \in DOMAIN items |-> items[i].html])
                               \o << Close("ul") >>
                          ELSE <<>>)
                    \o << Close("li") >>]

\* PageStructureManager.generateSiteNavigationHTML(): the elements of the
\* returned markup in order, none for ''; ends is FALSE when the recursion
\* over the children entries does not end
GenerateSiteNavigationHTML ==
  IF pageStructure = None THEN [ends |-> TRUE, html |-> <<>>]
  ELSE LET rootPages == GetRootPages(pages, pageOrder)
           items     == [i \in DOMAIN rootPages |->
                           GenerateNavigationItemHTML(rootPages[i], 0, Len(pages) + 1)]
       IN [ends |-> \A i \in DOMAIN items : items[i].ends,
           html |-> << Open("nav", "site-navigation"), Open("ul", "main-nav") >>
                    \o Flatten([i \in DOMAIN items |-> items[i].html])
                    \o << Close("ul"), Close("nav") >>]

\* a call of generateSiteNavigationHTML; it changes nothing of the manager
SiteNavigationCall ==
  /\ lastCall' = [op |-> "generateSiteNavigationHTML",
                  ends |-> GenerateSiteNavigationHTML.ends,
                  html |-> GenerateSiteNavigationHTML.html]
  /\ UNCHANGED <<config, pages, pageOrder, pageStructure, crossReferences>>

\* a call of generateNavigationHTML; it changes nothing of the manager
NavigationCall(pageSlug, currentPageSlug) ==
  /\ lastCall' = [op |-> "generateNavigationHTML", pageSlug |-> pageSlug,
                  currentPageSlug |-> currentPageSlug,
                  html |-> GenerateNavigationHTML(pageSlug, currentPageSlug)]
  /\ UNCHANGED <<config, pages, pageOrder, pageStructure, crossReferences>>

----------------------------------------------------------------------------
(* MySTASTTransformer: the current page and the links of ref roles *)

\* MySTASTTransformer.setCurrentPage(slug)
SetCurrentPage(slug) ==
  transformer' = [transformer EXCEPT !.currentPageSlug = Some(slug)]

RECURSIVE GetNodeText(_)
\* MySTASTTransformer.getNodeText(node): the literal value, else the texts
\* of the children joined
GetNodeText(node) ==
  LET RECURSIVE Join(_)
      Join(nodes) ==
        IF nodes = <<>> THEN <<>> ELSE GetNodeText(Head(nodes)) \o Join(Tail(nodes))
  IN IF Truthy(node.value) THEN node.value[1] ELSE Join(node.children)

\* MySTASTTransformer.resolveCrossReference(ref): the link target or null;
\* currentPageSlug is this.currentPageSlug at the time of the call.
\* The transformer of a publishing run always has its pageStructureManager.
TransformerResolveCrossReference(ref, currentPageSlug) ==
  IF ~Truthy(currentPageSlug) THEN None
  ELSE IF StartsWith(ref, Str_hash) THEN Some(ref)
  ELSE IF StartsWith(ref, Str_http) THEN Some(ref)
  ELSE IF pageStructure = None THEN None
  ELSE LET slug == FirstMatch(pages, ref) IN
       IF slug = None THEN None ELSE Some(Str_hash \o slug[1])

\* The cross-reference branch of mystRoleToMarkdown and mystRoleToHTML: the
\* target of the link the role is rendered as, or null when the role falls
\* through to the role mappings.
RoleLink(node, currentPageSlug) ==
  IF node.name = "ref" /\ Truthy(currentPageSlug)
    THEN LET resolvedRef ==
               TransformerResolveCrossReference(GetNodeText(node), currentPageSlug) IN
         IF Truthy(resolvedRef) THEN resolvedRef ELSE None
    ELSE None

\* astToMarkdown / astToHTML as far as links go: the roles among the
\* children of the document are rendered by mystRoleToMarkdown/HTML, in order
\* (a paragraph is rendered as its text)
RenderedLinks(ast, currentPageSlug) ==
  LET roles == SelectSeq(ast.children, LAMBDA node : node.type = "myst_role") IN
  [n \in DOMAIN roles |-> RoleLink(roles[n], currentPageSlug)]

\* MySTASTTransformer.addNavigationToContent(content, pageSlug): the
\* navigation markup put before the content, none when there is no current page
AddNavigationToContent(pageSlug, currentPageSlug) ==
  IF ~Truthy(currentPageSlug) THEN <<>>
  ELSE GenerateNavigationHTML(pageSlug, currentPageSlug[1])

----------------------------------------------------------------------------
(* Publishing runs: Doctor4MySTMD.processAndPublishWithTOC and publish-toc *)

\* One call a run made on a collaborator: the parser, the transformer, the
\* manager or DoctorIntegration; ok is FALSE when the call threw.
Event(call, slug, ok, title) ==
  [call |-> call, slug |-> slug, ok |-> ok, title |-> title]

\* The position of a run: the entry point, --dry-run, the configuration file
\* it was given, where it stands, and the index of the next page map entry.
Run(op, dryRun, cfg, at, next) ==
  [op |-> op, dryRun |-> dryRun, cfg |-> cfg, at |-> at, next |-> next]

\* What parser.parseFileWithFrontmatter gives for a page: it throws, or it
\* returns the document and the frontmatter (of which the title is used).
ParseResult(ok, ast, title) == [ok |-> ok, ast |-> ast, title |-> title]

\* whether the initialize call is made disregarding --dry-run
CallsInitialize_Always(op, dryRun) == op = "publish-toc"

\* publish-toc calls doctor.initialize() unless --dry-run is given;
\* processAndPublishWithTOC does not call it
CallsInitialize(op, dryRun) == op = "publish-toc" /\ ~dryRun

\* where a run stands after its buildStructure call: an error is rethrown by
\* processAndPublishWithTOC and ends publish-toc with exit code 1
AfterBuild(op, outcome) ==
  IF outcome = "returned" THEN "pages"
  ELSE IF outcome = "diverged" THEN "hung"
  ELSE IF op = "publish-toc" THEN "exited"
  ELSE "threw"

\* The start of a run up to the page loop: initialize where it is called
\* (initOk: whether it succeeds), then buildStructure.
StartRun(op, dryRun, initOk, cfg, baseDir, enum) ==
  /\ run.op = "none"
  /\ UNCHANGED <<transformer, tasks>>
  /\ IF CallsInitialize(op, dryRun) /\ ~initOk
       THEN /\ log' = << Event("initialize", None, FALSE, None) >>
            /\ run' = Run(op, dryRun, cfg, "exited", 1)
            /\ UNCHANGED <<config, pages, pageOrder, pageStructure, crossReferences,
                           lastCall, results>>
       ELSE /\ BuildStructure(cfg, baseDir, enum)
            /\ log' = IF CallsInitialize(op, dryRun)
                        THEN << Event("initialize", None, TRUE, None) >> ELSE <<>>
            /\ run' = Run(op, dryRun, cfg, AfterBuild(op, lastCall'.outcome), 1)
            /\ results' = <<>>

\* results.set(page.filePath, ok): only processAndPublishWithTOC keeps results
Recorded(filePath, ok) ==
  IF run.op = "processAndPublishWithTOC" THEN MapSet(results, filePath, ok) ELSE results

\* the calls of an iteration that publishes even when the transformation threw
PageCalls_CreateAfterFailure(slug, transformOk, createOk, title) ==
  << Event("parseFileWithFrontmatter", Some(slug), TRUE, None),
     Event("setCurrentPage", Some(slug), TRUE, None),
     Event("processCrossReferences", Some(slug), TRUE, None),
     Event("transform", Some(slug), transformOk, None),
     Event("createPage", Some(slug), createOk, Some(title)) >>

\* The calls of one iteration whose parse succeeded, in the order of the try
\* block: a throw ends the iteration, so createPage is reached only when the
\* transformation returned.
PageCalls(slug, transformOk, createOk, title) ==
  << Event("parseFileWithFrontmatter", Some(slug), TRUE, None),
     Event("setCurrentPage", Some(slug), TRUE, None),
     Event("processCrossReferences", Some(slug), TRUE, None),
     Event("transform", Some(slug), transformOk, None) >>
  \o (IF transformOk
        THEN << Event("createPage", Some(slug), createOk, Some(title)) >>
        ELSE <<>>)

\* One iteration of the loop over pageStructure.pages, or the end of the
\* loop.  parse is what the parser gives for the page, transformOk and
\* createOk whether the transformation and doctor.createPage succeed.
PageStep(parse, transformOk, createOk) ==
  /\ run.op # "none"
  /\ run.at = "pages"
  /\ UNCHANGED tasks
  /\ IF run.next > Len(pages)
       THEN /\ run' = [run EXCEPT !.at = "returned"]
            /\ UNCHANGED <<config, pages, pageOrder, pageStructure, crossReferences,
                           lastCall, results, log, transformer>>
       ELSE LET slug   == pages[run.next].key
                page   == pages[run.next].val
                title  == IF Truthy(parse.title) THEN parse.title[1] ELSE page.title
                parsed == Event("parseFileWithFrontmatter", Some(slug), parse.ok, None)
            IN /\ run' = [run EXCEPT !.next = @ + 1]
               /\ IF page.filePath = <<>>
                    THEN \* a section header: skipped
                         UNCHANGED <<config, pages, pageOrder, pageStructure,
                                     crossReferences, lastCall, results, log,
                                     transformer>>
                  ELSE IF ~parse.ok
                    THEN /\ log' = Append(log, parsed)
                         /\ results' = Recorded(page.filePath, FALSE)
                         /\ UNCHANGED <<config, pages, pageOrder, pageStructure,
                                        crossReferences, lastCall, transformer>>
                  ELSE IF run.dryRun
                    THEN /\ log' = Append(log, parsed)
                         /\ UNCHANGED <<config, pages, pageOrder, pageStructure,
                                        crossReferences, lastCall, results,
                                        transformer>>
                  ELSE /\ SetCurrentPage(slug)
                       /\ ProcessCrossReferences(parse.ast, slug)
                       /\ log' = log \o PageCalls(slug, transformOk, createOk, title)
                       /\ results' = Recorded(page.filePath, transformOk /\ createOk)

\* The loop body of processAndPublishWithTOC for one page, run as a task of
\* its own: where it stands, the document it parsed, the links it rendered
\* and the navigation it put before the content.
Task(slug, at, ast, links, navigation) ==
  [slug |-> slug, at |-> at, ast |-> ast, links |-> links, navigation |-> navigation]

\* the slugs of the entries of the page map that have a content file, in map order
FileSlugs ==
  LET entries == SelectSeq(pages, LAMBDA e : e.val.filePath # <<>>) IN
  [n \in DOMAIN entries |-> entries[n].key]

\* The run starts one task for every page with a content file instead of
\* awaiting the pages one after the other.
SpawnTasks ==
  /\ run.op = "processAndPublishWithTOC"
  /\ run.at = "pages"
  /\ run' = [run EXCEPT !.at = "tasks"]
  /\ tasks' = [n \in DOMAIN FileSlugs |->
                 Task(FileSlugs[n], "parse", [type |-> "root", children |-> <<>>],
                      <<>>, <<>>)]
  /\ UNCHANGED <<config, pages, pageOrder, pageStructure, crossReferences, lastCall,
                 results, log, transformer>>

\* One task runs from one suspension point of the loop body to the next:
\* the parse; setCurrentPage and processCrossReferences; the transformation,
\* which renders the roles before it first suspends; addNavigationToContent
\* and createPage.  parse is what the parser gives for the page.
TaskStep(t, parse) ==
  /\ run.at = "tasks"
  /\ t \in DOMAIN tasks
  /\ LET task == tasks[t] IN
     CASE task.at = "parse" ->
            /\ tasks' = [tasks EXCEPT ![t].at = "references", ![t].ast = parse.ast]
            /\ UNCHANGED <<config, pages, pageOrder, pageStructure, crossReferences,
                           lastCall, transformer>>
       [] task.at = "references" ->
            /\ SetCurrentPage(task.slug)
            /\ ProcessCrossReferences(task.ast, task.slug)
            /\ tasks' = [tasks EXCEPT ![t].at = "transform"]
       [] task.at = "transform" ->
            /\ tasks' = [tasks EXCEPT
                           ![t].at = "publish",
                           ![t].links = RenderedLinks(task.ast,
                                                      transformer.currentPageSlug)]
            /\ UNCHANGED <<config, pages, pageOrder, pageStructure, crossReferences,
                           lastCall, transformer>>
       [] task.at = "publish" ->
            /\ tasks' = [tasks EXCEPT
                           ![t].at = "done",
                           ![t].navigation =
                              AddNavigationToContent(task.slug,
                                                     transformer.currentPageSlug)]
            /\ UNCHANGED <<config, pages, pageOrder, pageStructure, crossReferences,
                           lastCall, transformer>>
       [] OTHER -> FALSE
  /\ UNCHANGED <<run, results, log>>

----------------------------------------------------------------------------
(* Inputs *)

Str_a_md     == <<"a",".","m","d">>
Str_b_md     == <<"b",".","m","d">>
Str_d_a_md   == <<"d","/","a",".","m","d">>
Str_guide_md == <<"g","u","i","d","e",".","m","d">>
Str_star_md  == <<"*",".","m","d">>
Str_Guide    == <<"G","u","i","d","e">>
Str_B        == <<"B">>
Str_x        == <<"x">>
Str_Bangs    == <<"!","!">>
Str_Dot      == <<".">>
Str_X        == <<"/","X">>

FileEntry(file, title, slug) == Entry(Some(file), title, slug, None, None)
PatternEntry(pattern) == Entry(None, None, None, Some(pattern), None)
SectionEntry(title, children) == Entry(None, title, None, None, Some(children))

\* file and pattern entries of the enumerated TOC descriptions
LeafEntries ==
  { FileEntry(Str_a_md, None, None),
    FileEntry(Str_d_a_md, Some(Str_B), None),
    FileEntry(Str_guide_md, None, None),
    FileEntry(Str_b_md, None, Some(Str_x)),
    PatternEntry(Str_star_md) }

\* titles of the enumerated section entries: titled, untitled, and a title
\* without any alphanumeric character
SectionTitles == { Some(Str_Guide), None, Some(Str_Bangs) }

RECURSIVE Forests(_)
\* the entry lists with at most n entries, nested ones counted
Forests(n) ==
  IF n = 0 THEN { <<>> }
  ELSE { <<>> } \cup
       UNION { { <<e>> \o rest :
                   e \in LeafEntries \cup
                         { SectionEntry(t, kids) :
                             t \in SectionTitles, kids \in Forests(k - 1) },
                   rest \in Forests(n - k) } : k \in 1..n }

TOCs == Forests(MaxEntries)

Configs ==
  { ConfigFile(FALSE, None), ConfigFile(TRUE, None),
    ConfigFile(TRUE, Some([toc |-> None])) }
  \cup { ConfigFile(TRUE, Some([toc |-> Some(t)])) : t \in TOCs }

BaseDirs == { Str_Dot, Str_X }

DiskOrder == [i \in DOMAIN Disk |-> i]
Enumerations == { DiskOrder, [i \in DOMAIN Disk |-> Len(Disk) + 1 - i] }

----------------------------------------------------------------------------
(* Specifications *)

\* buildStructure on one of the configurations cfgs under one of the base
\* directories dirs, the directory walk enumerating in one of the orders enums
BuildOn(cfgs, dirs, enums) ==
  /\ \E cfg \in cfgs, baseDir \in dirs, enum \in enums :
       BuildStructure(cfg, baseDir, enum)
  /\ UNCHANGED <<run, results, log, transformer, tasks>>

\* the first buildStructure of a new manager, on any enumerated configuration
FirstBuild ==
  /\ lastCall.op = "new"
  /\ BuildOn(Configs, { Str_Dot }, Enumerations)

NextBuild == FirstBuild

SpecBuild == Init /\ [][NextBuild]_vars

Str_MyPage_md == <<"M","y"," ","P","a","g","e","!","!",".","m","d">>
Str_MyPage    == <<"M","y"," ","P","a","g","e","!","!">>
Str_my_page   == <<"m","y","-","p","a","g","e">>

\* the file entries of the single-entry descriptions: every file with every
\* choice of explicit, empty and absent title and slug
FileEntries ==
  { FileEntry(f, t, g) :
      f \in { Str_a_md, Str_b_md, Str_d_a_md, Str_guide_md, Str_MyPage_md },
      t \in { None, Some(Str_B), Some(<<>>) },
      g \in { None, Some(Str_x), Some(<<>>) } }

\* descriptions holding one file entry, at root level or below a section
EntryConfigs ==
  { ConfigFile(TRUE, Some([toc |-> Some(<<e>>)])) : e \in FileEntries }
  \cup { ConfigFile(TRUE, Some([toc |-> Some(<<SectionEntry(Some(Str_Guide), <<e>>)>>)])) :
           e \in FileEntries }

\* the first buildStructure of a new manager on a single file entry
EntryBuild ==
  /\ lastCall.op = "new"
  /\ BuildOn(EntryConfigs, BaseDirs, Enumerations)

NextEntry == EntryBuild

SpecEntry == Init /\ [][NextEntry]_vars

\* characters of the enumerated slug inputs
SlugAlphabet == { "M", "m", "d", "1", ".", "/", "-" }

RECURSIVE StringsUpTo(_)
StringsUpTo(n) ==
  IF n = 0 THEN { <<>> }
  ELSE LET shorter == StringsUpTo(n - 1) IN
       shorter \cup { Append(w, c) : w \in shorter, c \in SlugAlphabet }

SlugInputs ==
  StringsUpTo(MaxLen)
  \cup { Str_MyPage, Str_MyPage_md, Str_a_md, Str_d_a_md, Str_Guide, Str_Bangs }

\* Slug derivation as a function of its input: the input is drawn first, then
\* one of the two implementations derives the slug and derives again from it.
InitSlug ==
  /\ config = None
  /\ pages = <<>>
  /\ pageOrder = <<>>
  /\ pageStructure = None
  /\ crossReferences = <<>>
  /\ \E w \in SlugInputs : lastCall = [op |-> "input", input |-> w]
  /\ run = [op |-> "none"]
  /\ results = <<>>
  /\ log = <<>>
  /\ transformer = [currentPageSlug |-> None]
  /\ tasks = <<>>

SlugCall(op, input, slug, again) ==
  [op |-> op, input |-> input, slug |-> slug, again |-> again]

CallGenerateSlug ==
  /\ lastCall.op = "input"
  /\ lastCall' = SlugCall("generateSlug", lastCall.input,
                          GenerateSlug(lastCall.input, None),
                          GenerateSlug(GenerateSlug(lastCall.input, None), None))
  /\ UNCHANGED <<config, pages, pageOrder, pageStructure, crossReferences,
                 run, results, log, transformer, tasks>>

CallGenerateSlugFromPath ==
  /\ lastCall.op = "input"
  /\ lastCall' = SlugCall("generateSlugFromPath", lastCall.input,
                          GenerateSlugFromPath(lastCall.input),
                          GenerateSlugFromPath(GenerateSlugFromPath(lastCall.input)))
  /\ UNCHANGED <<config, pages, pageOrder, pageStructure, crossReferences,
                 run, results, log, transformer, tasks>>

NextSlug == CallGenerateSlug \/ CallGenerateSlugFromPath

SpecSlug == InitSlug /\ [][NextSlug]_vars

Str_a       == <<"a">>
Str_guide   == <<"g","u","i","d","e">>
Tok_hash_a  == <<"#","a">>
Tok_hash_q  == <<"#","q">>
Tok_hash_x  == <<"#","x">>
Tok_url     == <<"h","t","t","p","s",":","/","/","x",".","c","o","m">>
Tok_httpd   == <<"h","t","t","p","d">>
Tok_hash_md == <<"#","d","/","a",".","m","d">>
Tok_X_Guide_md == <<"X","/","G","u","i","d","e",".","m","d">>
Str_httpd_md   == <<"h","t","t","p","d",".","m","d">>

RoleNode(name, value) == Node("myst_role", name, Some(value), <<>>)
TextNode(value) == Node("text", "", Some(value), <<>>)
Document(children) == [type |-> "root", children |-> children]

\* the parsed documents handed to processCrossReferences
Documents ==
  { Document(<<>>),
    Document(<< RoleNode("ref", Tok_hash_a), RoleNode("doc", Tok_url),
                RoleNode("doc", Str_a_md), RoleNode("ref", Tok_X_Guide_md) >>),
    Document(<< Node("paragraph", "", None,
                     << TextNode(Str_B), RoleNode("cite", Tok_hash_q) >>),
                Node("myst_role", "ref", None, << TextNode(Str_hash) >>),
                Node("myst_role", "doc", Some(Str_x),
                     << RoleNode("ref", Str_B), TextNode(Str_a) >>) >>),
    Document(<< RoleNode("ref", Str_d_a_md), RoleNode("ref", Str_Guide),
                RoleNode("math", Str_x), Node("myst_role", "ref", Some(<<>>), <<>>),
                RoleNode("ref", Tok_hash_x), RoleNode("doc", DotMd) >>),
    Document(<< RoleNode("ref", Tok_httpd), RoleNode("cite", Tok_hash_md),
                RoleNode("doc", Str_a), RoleNode("ref", Str_Bangs) >>) }

\* the slugs processCrossReferences is called for
SourceSlugs == { Str_a, Str_guide }

\* the table-of-contents descriptions of the full specification
SmallTOCs ==
  { <<>>,
    << FileEntry(Str_a_md, None, None), FileEntry(Str_d_a_md, Some(Str_B), None) >>,
    << SectionEntry(Some(Str_Guide),
                    << FileEntry(Str_a_md, None, None),
                       FileEntry(Str_b_md, None, Some(Str_x)) >>) >>,
    << SectionEntry(Some(Str_Bangs), << FileEntry(Str_a_md, None, None) >>) >>,
    << SectionEntry(Some(Str_Guide), << FileEntry(Str_guide_md, None, None) >>) >>,
    << FileEntry(Str_guide_md, None, None), PatternEntry(Str_star_md) >>,
    << FileEntry(Str_a_md, Some(Str_x), None),
       FileEntry(Str_b_md, None, Some(Str_x)),
       FileEntry(Str_httpd_md, None, None) >> }

SmallConfigs ==
  { ConfigFile(FALSE, None), ConfigFile(TRUE, None),
    ConfigFile(TRUE, Some([toc |-> None])) }
  \cup { ConfigFile(TRUE, Some([toc |-> Some(t)])) : t \in SmallTOCs }

\* buildStructure on the manager, new or already built
Build ==
  /\ ~Hung
  /\ BuildOn(SmallConfigs, { Str_Dot }, { DiskOrder })

\* processCrossReferences for a parsed document and a source slug
Process ==
  /\ ~Hung
  /\ \E document \in Documents, slug \in SourceSlugs :
       ProcessCrossReferences(document, slug)
  /\ UNCHANGED <<run, results, log, transformer, tasks>>

Next == Build \/ Process

Spec == Init /\ [][Next]_vars

Str_q == <<"q">>

\* generateNavigationHTML for a slug of the page map or for an unknown slug;
\* the current slug is the same slug (as addNavigationToContent passes it
\* after setCurrentPage) or another one
Navigate ==
  /\ ~Hung
  /\ \E pageSlug \in { pages[k].key : k \in DOMAIN pages } \cup { Str_q } :
       \E currentPageSlug \in { pageSlug, Str_q } :
         NavigationCall(pageSlug, currentPageSlug)
  /\ UNCHANGED <<run, results, log, transformer, tasks>>

\* generateSiteNavigationHTML on the manager as it stands
SiteNavigate ==
  /\ ~Hung
  /\ SiteNavigationCall
  /\ UNCHANGED <<run, results, log, transformer, tasks>>

NextNav == FirstBuild \/ Navigate \/ SiteNavigate

SpecNav == Init /\ [][NextNav]_vars

\* the table-of-contents descriptions of the publishing runs
PublishTOCs ==
  { <<>>,
    << FileEntry(Str_a_md, None, None), FileEntry(Str_d_a_md, Some(Str_B), None) >>,
    << SectionEntry(Some(Str_Guide),
                    << FileEntry(Str_a_md, None, None),
                       FileEntry(Str_b_md, None, Some(Str_x)) >>),
       FileEntry(Str_httpd_md, None, None) >>,
    << FileEntry(Str_b_md, None, Some(Str_x)), PatternEntry(Str_star_md) >>,
    << SectionEntry(Some(Str_Guide), << FileEntry(Str_guide_md, None, None) >>) >> }

PublishConfigs ==
  { ConfigFile(FALSE, None), ConfigFile(TRUE, None),
    ConfigFile(TRUE, Some([toc |-> None])) }
  \cup { ConfigFile(TRUE, Some([toc |-> Some(t)])) : t \in PublishTOCs }

\* what the parser may give for a page of a run
Parses ==
  { ParseResult(FALSE, Document(<<>>), None),
    ParseResult(TRUE,
                Document(<< RoleNode("ref", Tok_hash_a), RoleNode("doc", Str_a_md) >>),
                None),
    ParseResult(TRUE, Document(<< RoleNode("ref", Str_Guide) >>), Some(Str_B)) }

\* a run starts on a new manager: processAndPublishWithTOC, or publish-toc
\* with or without --dry-run
StartPublish ==
  /\ lastCall.op = "new"
  /\ \E op \in { "processAndPublishWithTOC", "publish-toc" }, dryRun \in BOOLEAN,
        initOk \in BOOLEAN, cfg \in PublishConfigs :
       /\ dryRun => op = "publish-toc"
       /\ StartRun(op, dryRun, initOk, cfg, Str_Dot, DiskOrder)

\* the run handles its next page
PublishPage ==
  \E parse \in Parses, transformOk \in BOOLEAN, createOk \in BOOLEAN :
    PageStep(parse, transformOk, createOk)

NextPublish == StartPublish \/ PublishPage

SpecPublish == Init /\ [][NextPublish]_vars

\* what the parser may give for the page of a task
TaskParses ==
  { ParseResult(TRUE, Document(<<>>), None),
    ParseResult(TRUE,
                Document(<< RoleNode("ref", Str_x), RoleNode("ref", Tok_hash_q),
                            RoleNode("ref", Str_a_md) >>),
                None) }

\* processAndPublishWithTOC starts on a new manager
StartParallel ==
  /\ lastCall.op = "new"
  /\ \E cfg \in PublishConfigs :
       StartRun("processAndPublishWithTOC", FALSE, TRUE, cfg, Str_Dot, DiskOrder)

\* one of the page tasks takes its next step
PageTask ==
  \E t \in DOMAIN tasks, parse \in TaskParses : TaskStep(t, parse)

NextParallel == StartParallel \/ SpawnTasks \/ PageTask

SpecParallel == Init /\ [][NextParallel]_vars

----------------------------------------------------------------------------
(* Properties of the built page map *)

\* buildPageStructure has filled the page map (buildStructure may still hang
\* in buildNavigation afterwards)
PagesBuilt == lastCall.op = "buildStructure" /\ lastCall.outcome # "threw"

\* buildStructure has returned the page structure
Returned == lastCall.op = "buildStructure" /\ lastCall.outcome = "returned"

InOrder == GetPagesInOrder(pages, pageOrder)

Count(seq, x) == Cardinality({ i \in DOMAIN seq : seq[i] = x })

Slugs(seq) == [i \in DOMAIN seq |-> seq[i].slug]

\* C1: after buildPageStructure (in a build that returns) the pages of getPagesInOrder have pairwise
\* distinct slugs and there are as many of them as the page map has keys.
C1_UniqueSlugs ==
  Returned =>
    /\ \A i, j \in DOMAIN InOrder : i # j => InOrder[i].slug # InOrder[j].slug
    /\ Len(InOrder) = Len(pages)

\* C2: after buildPageStructure (in a build that returns), for every page whose parent field is set,
\* the page stored under the parent slug lists the page's slug exactly once
\* among its children.
C2_ChildListedOnce ==
  Returned =>
    \A i \in DOMAIN pages :
      LET p == pages[i].val IN
      p.parent # None =>
        /\ MapHas(pages, p.parent[1])
        /\ Count(MapGet(pages, p.parent[1]).children, p.slug) = 1

\* the chain property of a breadcrumb trail for page p
IsParentChain(trail, p) ==
  /\ Len(trail) >= 1
  /\ trail[Len(trail)] = p
  /\ trail[1].parent = None
  /\ \A k \in 1..(Len(trail) - 1) : trail[k + 1].parent = Some(trail[k].slug)
  /\ (p.parent = None => Len(trail) = 1)

\* C3: for every slug of the page structure, getBreadcrumb returns the chain
\* of parent links from a parent-less root down to the page itself, and the
\* breadcrumbs index built by buildStructure holds the same trail.
C3_BreadcrumbChain ==
  PagesBuilt =>
    \A i \in DOMAIN pages :
      LET crumb == GetBreadcrumb(pages, pages[i].key) IN
      /\ crumb.ends
      /\ IsParentChain(crumb.trail, pages[i].val)
      /\ (Returned =>
            MapGet(pageStructure[1].navigation.breadcrumbs, pages[i].key) = crumb.trail)

\* C4: after buildStructure the siblings entry of a page below root level is
\* the children list of the page stored under its parent slug with the page's
\* own slug removed, in child-list order, and so does not contain the page;
\* the siblings entry of a root-level page is empty.
C4_Siblings ==
  Returned =>
    \A i \in DOMAIN pages :
      LET p    == pages[i].val
          sibs == MapGet(pageStructure[1].navigation.siblings, p.slug)
      IN IF p.level = 0 THEN sibs = <<>>
         ELSE /\ \A k \in DOMAIN sibs : sibs[k].slug # p.slug
              /\ Slugs(sibs) = SelectSeq(MapGet(pages, p.parent[1]).children,
                                         LAMBDA c : c # p.slug)

\* C4 witness: a structure was returned in which a page below root level has
\* a sibling.
C4_Witness ==
  /\ Returned
  /\ \E i \in DOMAIN pages :
       /\ pages[i].val.level > 0
       /\ MapGet(pageStructure[1].navigation.siblings, pages[i].key) # <<>>

RECURSIVE Subtree(_, _, _)
\* the slugs reachable from slug over children lists in at most depth steps
Subtree(pg, slug, depth) ==
  IF depth = 0 \/ ~MapHas(pg, slug) THEN { slug }
  ELSE { slug } \cup
       UNION { Subtree(pg, c, depth - 1) : c \in Range(MapGet(pg, slug).children) }

OrderOf(slug) == MapGet(pages, slug).order

\* subtrees of consecutive entries of a sibling list are numbered one after
\* the other
SiblingSubtreesAscend(sibs) ==
  \A i, j \in DOMAIN sibs :
    i < j =>
      \A a \in Subtree(pages, sibs[i], Len(pages)),
         b \in Subtree(pages, sibs[j], Len(pages)) :
        OrderOf(a) < OrderOf(b)

\* C5: buildPageStructure numbers the pages 0,1,2,... in depth-first
\* declaration order: the i-th page of getPagesInOrder has order i, a page
\* with children has a smaller order than every page of its subtree, and the
\* pages of an earlier sibling subtree have smaller orders than those of a
\* later one.
C5_DepthFirstOrder ==
  Returned =>
    /\ \A i \in DOMAIN InOrder : InOrder[i].order = i - 1
    /\ \A i \in DOMAIN pages :
         \A d \in Subtree(pages, pages[i].key, Len(pages)) \ { pages[i].key } :
           pages[i].val.order < OrderOf(d)
    /\ \A i \in DOMAIN pages : SiblingSubtreesAscend(pages[i].val.children)
    /\ SiblingSubtreesAscend(Slugs(GetRootPages(pages, pageOrder)))

\* C6: after buildPageStructure a page has level 0 exactly when it has no
\* parent, and a page created below a section has the section's level plus 1
\* and the section's slug as parent, getParent returning that section page.
C6_LevelAndParent ==
  Returned =>
    \A i \in DOMAIN pages :
      LET p      == pages[i].val
          parent == GetParent(pages, p.slug)
      IN /\ (p.level = 0 <=> p.parent = None)
         /\ p.parent # None =>
              /\ parent # None
              /\ parent[1].filePath = <<>>
              /\ parent[1].slug = p.parent[1]
              /\ p.level = parent[1].level + 1

----------------------------------------------------------------------------
(* Properties of file entries and of slug derivation *)

RECURSIVE SlugWords(_, _)
\* the maximal runs of [a-z0-9] of a string; cur is the run being read
SlugWords(s, cur) ==
  IF s = <<>> THEN (IF cur = <<>> THEN <<>> ELSE <<cur>>)
  ELSE IF IsSlugChar(Head(s)) THEN SlugWords(Tail(s), Append(cur, Head(s)))
  ELSE (IF cur = <<>> THEN <<>> ELSE <<cur>>) \o SlugWords(Tail(s), <<>>)

RECURSIVE JoinHyphen(_)
JoinHyphen(words) ==
  IF words = <<>> THEN <<>>
  ELSE IF Len(words) = 1 THEN Head(words)
  ELSE Head(words) \o <<"-">> \o JoinHyphen(Tail(words))

\* the normal form of the specification: lower-cased, every maximal run of
\* non-alphanumeric characters one hyphen, none at either end
Normalised(s) == JoinHyphen(SlugWords(ToLowerCase(s), <<>>))

\* the first level-1 heading of a file's lines, None without one: the text
\* after '# ' of the first line that, trimmed, starts with '# '
IsHeadingLine(line) == StartsWith(Trim(line), <<"#", " ">>)

FirstHeading(lines) ==
  IF \E i \in DOMAIN lines : IsHeadingLine(lines[i])
    THEN LET first == CHOOSE i \in DOMAIN lines :
                        /\ IsHeadingLine(lines[i])
                        /\ \A k \in 1..(i - 1) : ~IsHeadingLine(lines[k])
         IN Some(Trim(Substring(Trim(lines[first]), 2)))
    ELSE None

RECURSIVE LastFileEntry(_)
\* the file entry a single-entry description holds
LastFileEntry(entries) ==
  LET e == entries[Len(entries)] IN
  IF e.children # None THEN LastFileEntry(e.children[1]) ELSE e

\* the directory of the run as an absolute path
AbsoluteBase(baseDir) == IF baseDir = Str_Dot THEN Cwd ELSE baseDir

C7_WitnessMissingFile ==
  /\ lastCall.op = "buildStructure"
  /\ lastCall.outcome = "returned"
  /\ LET e == LastFileEntry(config[1].toc[1]) IN
     /\ e.title = None
     /\ ~ExistsSync(AbsoluteBase(lastCall.baseDir) \o Slash \o e.file[1])

SlugDerived == lastCall.op \in { "generateSlug", "generateSlugFromPath" }

\* C8 as stated: default slug derivation lower-cases its input, replaces
\* every maximal run of non-alphanumeric characters by one hyphen and strips
\* leading and trailing hyphens, "My Page!!" giving "my-page"; deriving from a
\* derived slug returns it unchanged; both implementations agree.
C8_AsStated ==
  SlugDerived =>
    /\ lastCall.slug = Normalised(lastCall.input)
    /\ lastCall.again = lastCall.slug
    /\ lastCall.slug = GenerateSlug(lastCall.input, None)
    /\ lastCall.slug = GenerateSlugFromPath(lastCall.input)

\* C8 amended: default slug derivation normalises the basename of its input
\* (directory prefix and a trailing .md removed): lower-cased, every maximal
\* run of non-alphanumeric characters one hyphen, no hyphen at either end,
\* "My Page!!" giving "my-page"; deriving from a derived slug returns it
\* unchanged; both implementations agree on every input.
C8_SlugDerivation ==
  SlugDerived =>
    /\ lastCall.slug = Normalised(Basename(lastCall.input, DotMd))
    /\ (lastCall.input = Str_MyPage => lastCall.slug = Str_my_page)
    /\ lastCall.again = lastCall.slug
    /\ lastCall.slug = GenerateSlug(lastCall.input, None)
    /\ lastCall.slug = GenerateSlugFromPath(lastCall.input)

\* C8 witness: "My Page!!" was derived to "my-page" by generateSlug, and an
\* input with directory prefix and extension was derived by generateSlugFromPath.
C8_Witness ==
  /\ lastCall.op = "generateSlug"
  /\ lastCall.input = Str_MyPage
  /\ lastCall.slug = Str_my_page

----------------------------------------------------------------------------
(* Properties of cross-reference resolution *)

Processed == lastCall.op = "processCrossReferences"

RECURSIVE TokensOf(_)
\* the non-empty literal values of a list of reference nodes
TokensOf(refNodes) ==
  IF refNodes = <<>> THEN <<>>
  ELSE LET ref == ExtractReference(Head(refNodes)) IN
       (IF Truthy(ref) THEN <<ref[1]>> ELSE <<>>) \o TokensOf(Tail(refNodes))

\* the reference tokens of the document processed last, in document order
LastTokens == TokensOf(FindReferenceNodes(lastCall.document.children))

\* C9: for a token beginning with '#', the record returned is resolved
\* exactly when the text after '#' is a slug of the current page structure,
\* and its url is the token unchanged.
C9_AnchorToken ==
  Processed =>
    /\ Len(lastCall.result) = Len(LastTokens)
    /\ \A i \in DOMAIN LastTokens :
         LET token == LastTokens[i] IN
         Head(token) = "#" =>
           /\ lastCall.result[i].resolved =
                (pageStructure # None /\
                 \E k \in DOMAIN pages : pages[k].val.slug = Tail(token))
           /\ lastCall.result[i].url = Some(token)

\* C9 witnesses: a '#' token naming an existing slug was resolved, and a '#'
\* token naming none was returned unresolved while a structure exists.
C9_Witness ==
  /\ Processed
  /\ \E i \in DOMAIN lastCall.result :
       /\ Head(LastTokens[i]) = "#"
       /\ lastCall.result[i].resolved
  /\ \E i \in DOMAIN lastCall.result :
       /\ Head(LastTokens[i]) = "#"
       /\ ~lastCall.result[i].resolved
       /\ pages # <<>>

\* C10: for a token beginning with 'http', the record returned is resolved,
\* of kind external, and its url is the token unchanged, whatever the page
\* structure contains.
C10_ExternalToken ==
  Processed =>
    /\ Len(lastCall.result) = Len(LastTokens)
    /\ \A i \in DOMAIN LastTokens :
         LET token == LastTokens[i] IN
         (Len(token) >= 4 /\ SubSeq(token, 1, 4) = <<"h","t","t","p">>) =>
           /\ lastCall.result[i].resolved
           /\ lastCall.result[i].type = "external"
           /\ lastCall.result[i].url = Some(token)

\* C10 witness: an 'http' token was processed both without any structure
\* built and with a structure holding pages.
C10_Witness ==
  /\ Processed
  /\ pageStructure # None
  /\ pages # <<>>
  /\ \E i \in DOMAIN lastCall.result :
       /\ lastCall.result[i].type = "external"
       /\ lastCall.result[i].url = Some(Tok_url)

C10_WitnessNoStructure ==
  /\ Processed
  /\ pageStructure = None
  /\ \E i \in DOMAIN lastCall.result : lastCall.result[i].type = "external"

\* a token the first two rules pass on and the file rule takes
IsHashToken(token) == Head(token) = "#"

IsHttpToken(token) == Len(token) >= 4 /\ SubSeq(token, 1, 4) = <<"h","t","t","p">>

HasSeparator(token) == \E k \in DOMAIN token : token[k] = "/"

HasMdSuffix(token) ==
  Len(token) >= 3 /\ SubSeq(token, Len(token) - 2, Len(token)) = <<".","m","d">>

IsFileToken(token) ==
  /\ ~IsHashToken(token)
  /\ ~IsHttpToken(token)
  /\ HasSeparator(token) \/ HasMdSuffix(token)

\* C11: for a token that contains '/' or ends with '.md' and starts with
\* neither '#' nor 'http', the record is of kind file, its slug is the
\* normalised basename of the token, the slug the TOC builder derives for
\* that path, whatever directory prefix the token carries; it is resolved
\* exactly when that slug is a key of the page structure, and its url is
\* '#' followed by the slug.
C11_FileToken ==
  Processed =>
    /\ Len(lastCall.result) = Len(LastTokens)
    /\ \A i \in DOMAIN LastTokens :
         LET token == LastTokens[i]
             slug  == Normalised(Basename(token, DotMd))
         IN IsFileToken(token) =>
              /\ lastCall.result[i].type = "file"
              /\ lastCall.result[i].to = slug
              /\ slug = GenerateSlug(token, None)
              /\ HasSeparator(token) =>
                   slug = GenerateSlug(<<"q", "/">> \o LastComponent(token), None)
              /\ lastCall.result[i].resolved =
                   (pageStructure # None /\ \E k \in DOMAIN pages : pages[k].key = slug)
              /\ lastCall.result[i].url = Some(<<"#">> \o slug)

\* C11 witness: a file token with a directory prefix was resolved to the
\* page of its basename, and another file token of the same document was
\* returned unresolved while pages exist.
C11_Witness ==
  /\ Processed
  /\ pages # <<>>
  /\ \E i \in DOMAIN lastCall.result :
       /\ IsFileToken(LastTokens[i])
       /\ HasSeparator(LastTokens[i])
       /\ lastCall.result[i].resolved
       /\ lastCall.result[i].url = Some(<<"#", "a">>)
  /\ \E i \in DOMAIN lastCall.result :
       /\ IsFileToken(LastTokens[i])
       /\ ~lastCall.result[i].resolved

\* a token none of the first three rules takes
IsLookupToken(token) ==
  ~IsHashToken(token) /\ ~IsHttpToken(token) /\ ~IsFileToken(token)

\* the positions, in traversal order, of the pages whose title or slug is the token
MatchesOf(token) ==
  IF pageStructure = None THEN {}
  ELSE { k \in DOMAIN InOrder : InOrder[k].title = token \/ InOrder[k].slug = token }

Least(S) == CHOOSE k \in S : \A m \in S : k <= m

\* C12: for a token none of the first three rules takes, the record is
\* resolved to the first page in traversal order whose title or slug equals
\* the token, with url '#' plus that page's slug; when no page matches the
\* record is unresolved and has no url.
C12_TitleOrSlugLookup ==
  Processed =>
    /\ Len(lastCall.result) = Len(LastTokens)
    /\ \A i \in DOMAIN LastTokens :
         LET token == LastTokens[i]
             found == MatchesOf(token)
         IN IsLookupToken(token) =>
              IF found # {}
                THEN /\ lastCall.result[i].resolved
                     /\ lastCall.result[i].to = InOrder[Least(found)].slug
                     /\ lastCall.result[i].url =
                          Some(<<"#">> \o InOrder[Least(found)].slug)
                ELSE /\ ~lastCall.result[i].resolved
                     /\ lastCall.result[i].url = None

RECURSIVE PathsOf(_)
\* the positions of the nodes below a list of nodes: child indices from the top
PathsOf(children) ==
  UNION { { <<k>> } \cup { <<k>> \o q : q \in PathsOf(children[k].children) } :
          k \in DOMAIN children }

RECURSIVE NodeAt(_, _)
NodeAt(children, path) ==
  IF Len(path) = 1 THEN children[path[1]]
  ELSE NodeAt(children[path[1]].children, Tail(path))

RECURSIVE Before(_, _)
\* depth-first document order of two positions: a node before its
\* descendants, an earlier child's subtree before a later child's
Before(p, q) ==
  IF p = <<>> THEN q # <<>>
  ELSE IF q = <<>> THEN FALSE
  ELSE p[1] < q[1] \/ (p[1] = q[1] /\ Before(Tail(p), Tail(q)))

\* the reference-role nodes of a document that carry a reference text: a
\* non-empty literal value, or else a first child with a non-empty value
IsReferenceRole(node) == node.type = "myst_role" /\ node.name \in { "ref", "cite", "doc" }

HasLiteral(node) == node.value # None /\ node.value[1] # <<>>

ReferenceText(node) ==
  IF HasLiteral(node) THEN node.value
  ELSE IF node.children # <<>> /\ HasLiteral(node.children[1])
    THEN node.children[1].value
  ELSE None

ReferencePaths(document) ==
  { p \in PathsOf(document.children) :
      /\ IsReferenceRole(NodeAt(document.children, p))
      /\ ReferenceText(NodeAt(document.children, p)) # None }

Rank(p, S) == Cardinality({ q \in S : Before(q, p) }) + 1

\* C13: processCrossReferences returns a list for every document and every
\* state of the page structure, none built included: one record for every
\* reference-role node (ref, cite, doc) that carries a reference text, those
\* with a non-empty literal value among them, in depth-first document
\* order, and a reference that does not resolve is a record with resolved
\* false in that list.
C13_NeverRaises ==
  Processed =>
    LET document == lastCall.document
        S        == ReferencePaths(document)
    IN /\ Len(lastCall.result) = Cardinality(S)
       /\ \A p \in S :
            LET node   == NodeAt(document.children, p)
                record == lastCall.result[Rank(p, S)]
            IN /\ record = ResolveCrossReference(ReferenceText(node)[1], lastCall.slug)
               /\ record.from = lastCall.slug
               /\ record.resolved \in BOOLEAN
               /\ record.type \in { "internal", "external", "file" }

\* C13 witness: before any structure was built a document with a reference
\* role nested in another node was processed, and its list holds records
\* that are not resolved.
C13_Witness ==
  /\ Processed
  /\ pageStructure = None
  /\ \E p \in ReferencePaths(lastCall.document) : Len(p) = 2
  /\ Len(lastCall.result) = 4
  /\ \E i \in DOMAIN lastCall.result : ~lastCall.result[i].resolved

----------------------------------------------------------------------------
(* Properties of the navigation markup *)

\* generateNavigationHTML was called for a page of the structure with the
\* focal slug as both arguments
FocalCall ==
  /\ lastCall.op = "generateNavigationHTML"
  /\ lastCall.pageSlug = lastCall.currentPageSlug
  /\ pageStructure # None
  /\ \E k \in DOMAIN pages : pages[k].key = lastCall.pageSlug

\* the page a slug is stored under
PageOf(slug) == pages[CHOOSE k \in DOMAIN pages : pages[k].key = slug].val

\* the focal page has a parent that is a page of the structure
FocalHasParent ==
  /\ PageOf(lastCall.pageSlug).parent # None
  /\ \E k \in DOMAIN pages : pages[k].key = PageOf(lastCall.pageSlug).parent[1]

\* the full children list (slugs) of the focal page's parent
FocalParentChildren == PageOf(PageOf(lastCall.pageSlug).parent[1]).children

\* the href attributes of the links of a class in the returned markup
LinkTargets(class) ==
  { lastCall.html[k].href : k \in { m \in DOMAIN lastCall.html :
                                      lastCall.html[m].class = Some(class) } }

\* C14: in the markup generateNavigationHTML returns for a focal page
\* (focal slug as both arguments), no prev link is emitted when the focal
\* page is the first child of its parent, no next link when it is the last
\* child, and neither when it is the only child.
C14_FirstLastOnlyChild ==
  (FocalCall /\ FocalHasParent) =>
    LET children == FocalParentChildren
        focal    == lastCall.pageSlug
    IN children # <<>> =>
         /\ children[1] = focal => LinkTargets("prev-page") = {}
         /\ children[Len(children)] = focal => LinkTargets("next-page") = {}
         /\ children = <<focal>> =>
              LinkTargets("prev-page") \cup LinkTargets("next-page") = {}

\* C20: for a focal page at index i of its parent's full children list, the
\* prev link of the markup targets the child at index i-1 and the next link
\* the child at index i+1, each absent when that index does not exist.
C20_NeighboursOfFocal ==
  (FocalCall /\ FocalHasParent) =>
    LET children == FocalParentChildren
        focal    == lastCall.pageSlug
    IN \A i \in DOMAIN children :
         children[i] = focal =>
           /\ LinkTargets("prev-page") =
                IF i > 1 THEN { Some(<<"#">> \o children[i - 1]) } ELSE {}
           /\ LinkTargets("next-page") =
                IF i < Len(children) THEN { Some(<<"#">> \o children[i + 1]) } ELSE {}

----------------------------------------------------------------------------
(* Properties of the publishing runs *)

\* the positions in the page map of the pages that have a content file
FilePages == { k \in DOMAIN pages : pages[k].val.filePath # <<>> }

\* the calls of one kind the run made for a slug
CallsFor(call, slug) ==
  { n \in DOMAIN log : log[n].call = call /\ log[n].slug = Some(slug) }

\* the run published the page of a slug: every step up to createPage succeeded
Published(slug) == \E n \in CallsFor("createPage", slug) : log[n].ok

ApiReturned == run.op = "processAndPublishWithTOC" /\ run.at = "returned"

\* C15: when processAndPublishWithTOC returns, every page that has a
\* content file was processed, whatever failed for the pages before it, and
\* the result map holds exactly one entry for every such page, true when
\* the page was published and false when one of its steps failed.
C15_PartialFailure ==
  ApiReturned =>
    /\ \A k \in FilePages :
         Cardinality(CallsFor("parseFileWithFrontmatter", pages[k].key)) = 1
    /\ Len(results) = Cardinality(FilePages)
    /\ \A k \in FilePages :
         /\ MapHas(results, pages[k].val.filePath)
         /\ MapGet(results, pages[k].val.filePath) = Published(pages[k].key)

\* the configuration file is absent or has no project.toc section
NoTOC(cfg) == ~cfg.exists \/ cfg.parsed = None \/ cfg.parsed[1].toc = None

\* C16: with the configuration file absent, or present without project.toc,
\* buildStructure raises and processAndPublishWithTOC raises in turn: no
\* page is parsed, no createPage call is made and no result is recorded.
C16_ConfigErrors ==
  (run.op = "processAndPublishWithTOC" /\ NoTOC(run.cfg)) =>
    /\ lastCall.op = "buildStructure"
    /\ lastCall.outcome = "threw"
    /\ run.at = "threw"
    /\ pageStructure = None
    /\ log = <<>>
    /\ results = <<>>

\* C16 witness: processAndPublishWithTOC was called on a configuration file
\* that exists but has no project.toc, and has raised.
C16_Witness ==
  /\ run.op = "processAndPublishWithTOC"
  /\ run.cfg.exists
  /\ run.cfg.parsed # None
  /\ run.cfg.parsed[1].toc = None
  /\ run.at = "threw"

C16_WitnessAbsent ==
  /\ run.op = "processAndPublishWithTOC"
  /\ ~run.cfg.exists
  /\ run.at = "threw"

\* the calls the run made on DoctorIntegration
DoctorCalls == { n \in DOMAIN log : log[n].call \in { "initialize", "createPage" } }

\* C18: in a publish-toc run with --dry-run, whatever pages the structure
\* has and whichever of them fail, neither DoctorIntegration.initialize nor
\* DoctorIntegration.createPage is called.
C18_DryRun ==
  (run.op = "publish-toc" /\ run.dryRun) => DoctorCalls = {}

\* C18 witness: a dry run has gone through all pages of a structure with at
\* least two content files, one of which failed to parse.
C18_Witness ==
  /\ run.op = "publish-toc"
  /\ run.dryRun
  /\ run.at = "returned"
  /\ Cardinality(FilePages) >= 2
  /\ \E n \in DOMAIN log : ~log[n].ok
  /\ \E n \in DOMAIN log : log[n].ok

----------------------------------------------------------------------------
(* Properties of the cross-reference cache and of token classification *)

\* the slugs that have a slot in a cache, and the list a cache holds for a slug
SlotKeys(cache) == { cache[k].key : k \in DOMAIN cache }

SlotOf(cache, slug) ==
  IF slug \in SlotKeys(cache)
    THEN cache[CHOOSE k \in DOMAIN cache : cache[k].key = slug].val
    ELSE <<>>

\* C17: a processCrossReferences call for a slug leaves in the cache slot
\* of that slug the list it returns, every record of which has from = slug,
\* and leaves the slots of all other slugs as they were; no other operation
\* changes the cache, so getCrossReferences(slug) is the list of the most
\* recent call for that slug.
C17_CacheFrame ==
  [][ IF lastCall'.op = "processCrossReferences"
        THEN /\ SlotOf(crossReferences', lastCall'.slug) = lastCall'.result
             /\ \A n \in DOMAIN lastCall'.result :
                  lastCall'.result[n].from = lastCall'.slug
             /\ SlotKeys(crossReferences') = SlotKeys(crossReferences) \cup { lastCall'.slug }
             /\ \A slug \in SlotKeys(crossReferences) \ { lastCall'.slug } :
                  SlotOf(crossReferences', slug) = SlotOf(crossReferences, slug)
        ELSE crossReferences' = crossReferences ]_vars

\* C17 witness: a call has stored its list in the slot of its slug while
\* the slot of another slug holds the list of an earlier call on another
\* document.
C17_Witness ==
  /\ Processed
  /\ lastCall.result # <<>>
  /\ GetCrossReferences(lastCall.slug) = lastCall.result
  /\ \E slug \in SlotKeys(crossReferences) \ { lastCall.slug } :
       /\ GetCrossReferences(slug) # <<>>
       /\ GetCrossReferences(slug)[1].from = slug
       /\ GetCrossReferences(slug)[1].to # lastCall.result[1].to

\* C19: the kind of a token is decided by the first rule that matches, in
\* the order '#' prefix, 'http' prefix, separator or '.md' suffix, lookup:
\* every record has one kind; a '#' token is an internal anchor whose url is
\* the token, also when it contains '/' or ends with '.md'; an 'http' token
\* is external and resolved with the token as url, also when a page's title
\* or slug equals it; any other token with '/' or '.md' suffix is a file
\* reference; the remaining tokens are looked up.
C19_FirstRuleWins ==
  Processed =>
    /\ Len(lastCall.result) = Len(LastTokens)
    /\ \A i \in DOMAIN LastTokens :
         LET token  == LastTokens[i]
             record == lastCall.result[i]
         IN /\ record.type \in { "internal", "external", "file" }
            /\ IsHashToken(token) =>
                 /\ record.type = "internal"
                 /\ record.to = Tail(token)
                 /\ record.url = Some(token)
            /\ (~IsHashToken(token) /\ IsHttpToken(token)) =>
                 /\ record.type = "external"
                 /\ record.resolved
                 /\ record.to = token
                 /\ record.url = Some(token)
            /\ IsFileToken(token) => record.type = "file"
            /\ IsLookupToken(token) =>
                 /\ record.type = "internal"
                 /\ record.url # Some(token)

\* C19 witness: one document held a '#' token with a path separator and an
\* '.md' suffix, recorded as internal anchor, and an 'http' token equal to
\* the slug and title of a page of the structure, recorded as external.
C19_Witness ==
  /\ Processed
  /\ pageStructure # None
  /\ \E i \in DOMAIN LastTokens :
       /\ IsHashToken(LastTokens[i])
       /\ HasSeparator(LastTokens[i])
       /\ HasMdSuffix(LastTokens[i])
       /\ lastCall.result[i].type = "internal"
  /\ \E i \in DOMAIN LastTokens :
       /\ IsHttpToken(LastTokens[i])
       /\ \E k \in DOMAIN pages :
            pages[k].key = LastTokens[i] /\ pages[k].val.title = LastTokens[i]
       /\ lastCall.result[i].type = "external"

----------------------------------------------------------------------------
(* Properties of the navigation indices, of sections and of determinism *)

\* the keys of a Map in insertion order
KeysOf(m) == [k \in DOMAIN m |-> m[k].key]

\* C21: after buildStructure each of the three navigation indices has an
\* entry for exactly the slugs of the page map, and the children entry of a
\* slug lists the direct children of that page and nothing deeper: every
\* page listed has that slug as parent, every page with that slug as parent
\* is listed once, and the list is in declaration (traversal) order.
C21_NavigationIndices ==
  Returned =>
    LET navigation == pageStructure[1].navigation IN
    /\ KeysOf(navigation.breadcrumbs) = KeysOf(pages)
    /\ KeysOf(navigation.siblings) = KeysOf(pages)
    /\ KeysOf(navigation.children) = KeysOf(pages)
    /\ \A k \in DOMAIN pages :
         LET slug == pages[k].key
             kids == navigation.children[k].val
         IN /\ \A n \in DOMAIN kids :
                 /\ kids[n].parent = Some(slug)
                 /\ kids[n].level = pages[k].val.level + 1
            /\ \A m \in DOMAIN pages :
                 pages[m].val.parent = Some(slug) =>
                   Cardinality({ n \in DOMAIN kids : kids[n].slug = pages[m].key }) = 1
            /\ \A n, m \in DOMAIN kids : n < m => kids[n].order < kids[m].order

RECURSIVE SectionEntriesOf(_)
\* the section entries of a list of TOC entries, at any depth, in declaration
\* order: the entries with children that are neither file nor pattern entries
SectionEntriesOf(entries) ==
  IF entries = <<>> THEN <<>>
  ELSE LET e == Head(entries) IN
       (IF ~Truthy(e.file) /\ ~Truthy(e.pattern) /\ e.children # None
          THEN <<e>> \o SectionEntriesOf(e.children[1])
          ELSE <<>>)
       \o SectionEntriesOf(Tail(entries))

\* C22: a section entry without explicit slug that has a title is registered
\* under the slug derived from its title, and the section entries with
\* neither title nor slug are registered under pairwise different slugs, so
\* that the page map holds one section page titled "Section" for each of them.
C22_SectionSlugs ==
  PagesBuilt =>
    LET sections == SectionEntriesOf(config[1].toc[1])
        untitled == { n \in DOMAIN sections :
                        ~Truthy(sections[n].title) /\ ~Truthy(sections[n].slug) }
    IN /\ \A n \in DOMAIN sections :
            (Truthy(sections[n].title) /\ ~Truthy(sections[n].slug)) =>
              \E k \in DOMAIN pages :
                pages[k].key = Normalised(Basename(sections[n].title[1], DotMd))
       /\ Cardinality({ k \in DOMAIN pages :
                          /\ pages[k].val.filePath = <<>>
                          /\ pages[k].val.title = <<"S","e","c","t","i","o","n">> })
            = Cardinality(untitled)

\* what buildPageStructure registers for the configuration of the last build
\* when the directory walk enumerates the files in the order enum
RebuiltWith(enum) ==
  ProcessTOCEntries(config[1].toc[1], lastCall.baseDir, 0, None, EmptyBuild, enum)

\* C23: the result of buildPageStructure depends on the declared TOC and on
\* the set of files only: a build in which glob enumerates the same files in
\* another order registers the same slugs in the same traversal order, with
\* the same order numbers and the same children lists.
C23_Deterministic ==
  PagesBuilt =>
    \A enum \in Enumerations :
      /\ RebuiltWith(enum).pageOrder = pageOrder
      /\ RebuiltWith(enum).pages = pages

\* the link targets of the site menu, in the order they are emitted
MenuLinks ==
  LET links == SelectSeq(lastCall.html, LAMBDA e : e.tag = "a") IN
  [n \in DOMAIN links |-> links[n].href]

SiteMenuCall == lastCall.op = "generateSiteNavigationHTML" /\ pageStructure # None

\* C24: the site menu of generateSiteNavigationHTML lists the root pages in
\* traversal order and beneath each, recursively, its children in child-list
\* order: its links are the pages of the structure in traversal order, file
\* pages and section headers of every depth, each page exactly once.
C24_SiteMenu ==
  SiteMenuCall =>
    /\ lastCall.ends
    /\ \A k \in DOMAIN pages :
         Cardinality({ n \in DOMAIN MenuLinks :
                         MenuLinks[n] = Some(<<"#">> \o pages[k].key) }) = 1
    /\ MenuLinks = [n \in DOMAIN InOrder |-> Some(<<"#">> \o InOrder[n].slug)]

\* the tasks that have run to their end
DoneTasks == { t \in DOMAIN tasks : tasks[t].at = "done" }

\* the cache slot of a finished task is what processing its page alone gives
SlotAsAlone(t) ==
  GetCrossReferences(tasks[t].slug) =
    ResolveAll(FindReferenceNodes(tasks[t].ast.children), tasks[t].slug)

\* the links of a finished task are what processing its page alone renders
LinksAsAlone(t) ==
  tasks[t].links = RenderedLinks(tasks[t].ast, Some(tasks[t].slug))

\* the navigation of a finished task is what processing its page alone adds
NavigationAsAlone(t) ==
  tasks[t].navigation = AddNavigationToContent(tasks[t].slug, Some(tasks[t].slug))

\* C25: processing a page after buildStructure writes no shared state but
\* the cross-reference cache slot of the page's slug, so when the pages are
\* processed as interleaved tasks every page ends with the cache slot, the
\* rendered links and the navigation it has when the pages are processed one
\* after the other.
C25_Interleaving ==
  \A t \in DoneTasks : SlotAsAlone(t) /\ LinksAsAlone(t) /\ NavigationAsAlone(t)

\* C26: buildStructure terminates for every finite table of contents: the
\* parent walk of getBreadcrumb reaches a page without parent, also when a
\* child derives the slug of its enclosing section, and the recursive site
\* menu reaches pages without children.
C26_Terminates ==
  /\ lastCall.op = "buildStructure" => lastCall.outcome # "diverged"
  /\ lastCall.op = "generateSiteNavigationHTML" => lastCall.ends

\* the breadcrumb trail stored for the page map entry k
TrailOf(k) == pageStructure[1].navigation.breadcrumbs[k].val

\* C27: after buildStructure the breadcrumb trail of every page p has
\* p.level + 1 entries and its entry at position k (from 0) has level k, also
\* for the children of a section whose derived slug is the empty string.
C27_TrailLevels ==
  Returned =>
    \A k \in DOMAIN pages :
      /\ Len(TrailOf(k)) = pages[k].val.level + 1
      /\ \A n \in DOMAIN TrailOf(k) : TrailOf(k)[n].level = n - 1

\* the target the transformer links the i-th token of the document processed
\* last to, when it renders the page the document was processed for
LinkOf(i) == TransformerResolveCrossReference(LastTokens[i], Some(lastCall.slug))

\* C28: the link rendered for a reference agrees with the recorded
\* cross-reference: for every page structure and every token, the
\* transformer's resolveCrossReference gives a target exactly when the
\* manager's resolveCrossReference records the token as resolved, and the
\* target is the recorded url; so for file-path tokens and for '#' tokens
\* that name no slug.
C28_LinkAgreesWithRecord ==
  Processed =>
    /\ Len(lastCall.result) = Len(LastTokens)
    /\ \A i \in DOMAIN LastTokens :
         /\ (LinkOf(i) # None) <=> lastCall.result[i].resolved
         /\ LinkOf(i) # None => LinkOf(i) = lastCall.result[i].url

\* the step is a buildStructure call that failed on a manager that had
\* completed a build before
FailedRebuild ==
  /\ pageStructure # None
  /\ lastCall'.op = "buildStructure"
  /\ lastCall'.outcome = "threw"
  /\ lastCall' # lastCall

\* C29: a buildStructure call that fails, the configuration file absent or
\* without project.toc, after an earlier successful build leaves manager and
\* TOC parser as they were: getPageStructure, getAllPages, getPagesInOrder
\* and getNavigation return what they returned before the call.
C29_FailedRebuild ==
  [][FailedRebuild =>
       /\ pageStructure' = pageStructure
       /\ pages' = pages
       /\ pageOrder' = pageOrder
       /\ GetNavigation' = GetNavigation]_vars

\* the slugs the page map has an entry for
PageKeys == { pages[k].key : k \in DOMAIN pages }

\* the position of a slug's first occurrence in the traversal order
FirstAt(slug) == Least({ k \in DOMAIN pageOrder : pageOrder[k] = slug })

\* the place of a call in the processing of one page
StepOf(call) ==
  CASE call = "parseFileWithFrontmatter" -> 1
    [] call = "setCurrentPage" -> 2
    [] call = "processCrossReferences" -> 3
    [] call = "transform" -> 4
    [] call = "createPage" -> 5
    [] OTHER -> 0

\* the calls the run made for pages
PageCallsOf == { n \in DOMAIN log : log[n].slug # None }

\* C30: the run handles its pages strictly one at a time in traversal
\* order: the calls for a page follow all calls for the pages before it and
\* come in the order of the steps; createPage is called at most once per
\* page, only after the page's parse, processCrossReferences and
\* transformation have succeeded, never after a step of the page failed, and
\* never for a section header.
C30_PublishOrder ==
  run.op # "none" =>
    /\ \A n, m \in PageCallsOf :
         n < m =>
           /\ log[n].slug[1] \in PageKeys /\ log[m].slug[1] \in PageKeys
           /\ FirstAt(log[n].slug[1]) <= FirstAt(log[m].slug[1])
           /\ log[n].slug = log[m].slug => StepOf(log[n].call) < StepOf(log[m].call)
    /\ \A n \in PageCallsOf :
         log[n].call = "createPage" =>
           LET slug == log[n].slug[1] IN
           /\ Cardinality(CallsFor("createPage", slug)) = 1
           /\ MapGet(pages, slug).filePath # <<>>
           /\ \A call \in { "parseFileWithFrontmatter", "processCrossReferences",
                            "transform" } :
                \E p \in CallsFor(call, slug) : p < n /\ log[p].ok
           /\ \A p \in PageCallsOf : (p < n /\ log[p].slug = log[n].slug) => log[p].ok

\* C30 witness: a run has returned that published two pages one after the
\* other, skipped a section header, and gave up a page whose transformation
\* or parse failed.
C30_Witness ==
  /\ ApiReturned
  /\ \E k \in DOMAIN pages : pages[k].val.filePath = <<>>
  /\ \E s1, s2 \in PageKeys :
       /\ s1 # s2
       /\ Published(s1) /\ Published(s2)
  /\ \E s3 \in PageKeys :
       /\ CallsFor("createPage", s3) = {}
       /\ \E p \in CallsFor("transform", s3) : ~log[p].ok

====
